---- MODULE Spec2Model ----
(***************************************************************************)
(* A model of normpic's ordering and naming engine and of the              *)
(* organize_photos pipeline around it.                                     *)
(*                                                                         *)
(* An Optional[T] value of the Python source is a sequence of length at    *)
(* most one: <<>> is None, <<v>> is the value v.  A Python string that is  *)
(* compared with < (a file name) is the sequence of its code points.       *)
(***************************************************************************)
EXTENDS Integers, Sequences, FiniteSets, TLC

(***************************************************************************)
(* Bounds of the model.                                                    *)
(***************************************************************************)
\* the largest batch handed to the ordering engine
MaxPics == 4

(***************************************************************************)
(* Generic helpers on sequences.                                           *)
(***************************************************************************)
None == <<>>
Some(v) == <<v>>
IsNone(o) == Len(o) = 0
Range(s) == {s[i] : i \in 1..Len(s)}

\* str.__lt__ : lexicographic order of code points, a proper prefix first
RECURSIVE StrLess(_, _)
StrLess(a, b) ==
  IF Len(b) = 0 THEN FALSE
  ELSE IF Len(a) = 0 THEN TRUE
  ELSE IF Head(a) # Head(b) THEN Head(a) < Head(b)
  ELSE StrLess(Tail(a), Tail(b))

(***************************************************************************)
(* The inputs of the ordering engine: (photo_path, exif_data, camera_info) *)
(* tuples, flattened into one record.  name is photo_path.name.            *)
(***************************************************************************)
\* file names of one source directory, as code points ("1", "10", "2", ...)
FileNames == << <<1>>, <<1, 0>>, <<2>>, <<0, 2>>, <<1, 0, 0>>, <<2, 1>> >>

\* whole-second EXIF timestamps (DateTimeOriginal has second resolution)
Seconds == {1, 2}
\* SubSecTimeOriginal parsed by int(): absent, 0, a millisecond count below
\* one second, and a longer digit string that int() turns into 1000 or more
Subseconds == {None, Some(0), Some(500), Some(1500)}
\* (make, model) of CameraInfo
Cameras == { [make |-> None, model |-> None],
             [make |-> Some("Canon"), model |-> Some("EOS R5")] }

\* ExifData and CameraInfo of one photo: no EXIF at all, every subsecond
\* and camera in the first second, and a plain timestamp in the later ones
Metas ==
  { [timestamp |-> None, subsecond |-> None, make |-> None, model |-> None] }
  \cup
  { [timestamp |-> Some(t), subsecond |-> s, make |-> c.make, model |-> c.model] :
      t \in {1}, s \in Subseconds, c \in Cameras }
  \cup
  { [timestamp |-> Some(t), subsecond |-> None, make |-> None, model |-> None] :
      t \in Seconds \ {1} }

PicData(n, m) ==
  [name |-> FileNames[n], timestamp |-> m.timestamp, subsecond |-> m.subsecond,
   make |-> m.make, model |-> m.model]

\* the enumerations of k files of one directory (pairwise different names)
InjectiveSeqs(k) ==
  {f \in [1..k -> 1..k] : \A i, j \in 1..k : i # j => f[i] # f[j]}

(***************************************************************************)
(* _order_photos_temporally                                                *)
(***************************************************************************)
\* `if exif_data.subsecond:` : None and 0 are both falsy
SubsecondTruthy(e) == ~IsNone(e.subsecond) /\ e.subsecond[1] # 0

\* timestamp.timestamp() + subsecond / 1000.0, in milliseconds
FullTimestampMs(e) ==
  e.timestamp[1] * 1000 + (IF SubsecondTruthy(e) THEN e.subsecond[1] ELSE 0)

\* a sort key whose first component does not tell the entries without a
\* timestamp from the others
sort_key_unranked(e) ==
  IF ~IsNone(e.timestamp)
  THEN [k1 |-> 0, k2 |-> FullTimestampMs(e),
        k3 |-> IF SubsecondTruthy(e) THEN 0 ELSE 1, k4 |-> e.name]
  ELSE [k1 |-> 0, k2 |-> 0, k3 |-> 0, k4 |-> e.name]

\* sort_key: (0, timestamp_microsec, subsec_priority, name) or (1, 0, 0, name)
sort_key(e) ==
  IF ~IsNone(e.timestamp)
  THEN [k1 |-> 0, k2 |-> FullTimestampMs(e),
        k3 |-> IF SubsecondTruthy(e) THEN 0 ELSE 1, k4 |-> e.name]
  ELSE [k1 |-> 1, k2 |-> 0, k3 |-> 0, k4 |-> e.name]

\* a comparison that stops at the subsecond priority and leaves the file
\* name out
KeyLessWithoutName(a, b) ==
  IF a.k1 # b.k1 THEN a.k1 < b.k1
  ELSE IF a.k2 # b.k2 THEN a.k2 < b.k2
  ELSE a.k3 < b.k3

\* tuple comparison of two sort keys
KeyLess(a, b) ==
  IF a.k1 # b.k1 THEN a.k1 < b.k1
  ELSE IF a.k2 # b.k2 THEN a.k2 < b.k2
  ELSE IF a.k3 # b.k3 THEN a.k3 < b.k3
  ELSE StrLess(a.k4, b.k4)

\* insert x behind every element that does not sort after it (stable)
RECURSIVE InsertByKey(_, _, _)
InsertByKey(x, kx, s) ==
  IF Len(s) = 0 THEN <<x>>
  ELSE IF KeyLess(kx, sort_key(Head(s))) THEN <<x>> \o s
  ELSE <<Head(s)>> \o InsertByKey(x, kx, Tail(s))

\* sorted(pics_data, key=sort_key): a stable sort
RECURSIVE SortedPrefix(_, _)
SortedPrefix(s, n) ==
  IF n = 0 THEN <<>>
  ELSE InsertByKey(s[n], sort_key(s[n]), SortedPrefix(s, n - 1))

order_photos_temporally(pics) == SortedPrefix(pics, Len(pics))

(***************************************************************************)
(* _order_photos_with_burst_preservation                                   *)
(***************************************************************************)
\* f"{cam_info.make or 'unknown'}-{cam_info.model or 'unknown'}"
cam_key(e) ==
  << IF IsNone(e.make) THEN "unknown" ELSE e.make[1], "-",
     IF IsNone(e.model) THEN "unknown" ELSE e.model[1] >>

\* the inner while loop: the first index from j on whose entry has no
\* timestamp or another whole-second timestamp (Len + 1 when there is none)
RECURSIVE GroupEnd(_, _, _)
GroupEnd(s, j, main_timestamp) ==
  IF j > Len(s) THEN j
  ELSE IF ~IsNone(s[j].timestamp) /\ s[j].timestamp[1] = main_timestamp
       THEN GroupEnd(s, j + 1, main_timestamp)
       ELSE j

\* the keys of a defaultdict filled in the order of the group (first
\* occurrence order, which is the iteration order of the dict)
RECURSIVE CameraKeysInOrder(_)
CameraKeysInOrder(group) ==
  IF Len(group) = 0 THEN <<>>
  ELSE LET rest == CameraKeysInOrder(SubSeq(group, 1, Len(group) - 1))
           k == cam_key(group[Len(group)])
       IN IF k \in Range(rest) THEN rest ELSE Append(rest, k)

\* camera_groups[cam_key]: the members of one camera, in group order
CameraPics(group, k) == SelectSeq(group, LAMBDA e : cam_key(e) = k)

\* a sort key of the camera groups that takes each camera's last member
camera_latest_sort_key(group, k) ==
  FullTimestampMs(CameraPics(group, k)[Len(CameraPics(group, k))])

\* camera_earliest_sort_key: the full timestamp of a camera's first member
camera_earliest_sort_key(group, k) == FullTimestampMs(CameraPics(group, k)[1])

\* sorted(camera_groups.items(), key=camera_earliest_sort_key): stable
RECURSIVE InsertCamera(_, _, _)
InsertCamera(group, k, ks) ==
  IF Len(ks) = 0 THEN <<k>>
  ELSE IF camera_earliest_sort_key(group, k) < camera_earliest_sort_key(group, Head(ks))
       THEN <<k>> \o ks
       ELSE <<Head(ks)>> \o InsertCamera(group, k, Tail(ks))

RECURSIVE SortedCameras(_, _, _)
SortedCameras(group, ks, n) ==
  IF n = 0 THEN <<>>
  ELSE InsertCamera(group, ks[n], SortedCameras(group, ks, n - 1))

RECURSIVE ConcatCameras(_, _)
ConcatCameras(group, ks) ==
  IF Len(ks) = 0 THEN <<>>
  ELSE CameraPics(group, Head(ks)) \o ConcatCameras(group, Tail(ks))

\* what one same-timestamp group appends to final_order
EmitGroup(group) ==
  LET ks == CameraKeysInOrder(group)
  IN IF Len(ks) <= 1 THEN group
     ELSE ConcatCameras(group, SortedCameras(group, ks, Len(ks)))

\* the outer while loop, from index i on
RECURSIVE BurstFrom(_, _)
BurstFrom(s, i) ==
  IF i > Len(s) THEN <<>>
  ELSE IF IsNone(s[i].timestamp) THEN <<s[i]>> \o BurstFrom(s, i + 1)
  ELSE LET j == GroupEnd(s, i + 1, s[i].timestamp[1])
       IN EmitGroup(SubSeq(s, i, j - 1)) \o BurstFrom(s, j)

order_photos_with_burst_preservation(pics) ==
  BurstFrom(order_photos_temporally(pics), 1)

(***************************************************************************)
(* src/template/filename.py                                                *)
(*                                                                         *)
(* A generated file name is the sequence of the pieces it is concatenated  *)
(* from; the camera code contributes its three characters.  A make or      *)
(* model string is looked up as the sequence of its characters.            *)
(***************************************************************************)
\* BASE32_ALPHABET
BASE32_ALPHABET == <<"0", "1", "2", "3", "4", "5", "6", "7", "8", "9", "A", "B", "C", "D", "E", "F", "G", "H", "I", "J", "K", "L", "M", "N", "O", "P", "Q", "R", "S", "T", "U", "V">>

\* the characters of the make and model strings of the model
CharsOf(s) ==
  CASE s = "Canon" -> <<"C", "a", "n", "o", "n">>
    [] s = "EOS R5" -> <<"E", "O", "S", " ", "R", "5">>
    [] s = "Apple" -> <<"A", "p", "p", "l", "e">>
    [] s = "iPhone 15 Pro" -> <<"i", "P", "h", "o", "n", "e", " ", "1", "5", " ", "P", "r", "o">>
    [] s = "Z 5" -> <<"Z", " ", "5">>
    [] s = "--" -> <<"-", "-">>
    [] s = "" -> <<>>

UpperToLower ==
  ("A" :> "a") @@ ("B" :> "b") @@ ("C" :> "c") @@ ("D" :> "d") @@ ("E" :> "e") @@ ("F" :> "f") @@ ("G" :> "g") @@ ("H" :> "h") @@ ("I" :> "i") @@ ("J" :> "j") @@ ("K" :> "k") @@ ("L" :> "l") @@ ("M" :> "m") @@ ("N" :> "n") @@ ("O" :> "o") @@ ("P" :> "p") @@ ("Q" :> "q") @@ ("R" :> "r") @@ ("S" :> "s") @@ ("T" :> "t") @@ ("U" :> "u") @@ ("V" :> "v") @@ ("W" :> "w") @@ ("X" :> "x") @@ ("Y" :> "y") @@ ("Z" :> "z")

\* str.lower(), one character
LowerChar(c) == IF c \in DOMAIN UpperToLower THEN UpperToLower[c] ELSE c
\* str.lower()
Lower(s) == [i \in 1..Len(s) |-> LowerChar(s[i])]

Digits == {"0", "1", "2", "3", "4", "5", "6", "7", "8", "9"}
\* str.isalnum(), one character
IsAlnum(c) ==
  \/ c \in Digits
  \/ c \in DOMAIN UpperToLower
  \/ c \in {UpperToLower[u] : u \in DOMAIN UpperToLower}

\* str.strip(): leading and trailing blanks removed
RECURSIVE LStrip(_)
LStrip(s) == IF Len(s) > 0 /\ Head(s) = " " THEN LStrip(Tail(s)) ELSE s
RECURSIVE RStrip(_)
RStrip(s) ==
  IF Len(s) > 0 /\ s[Len(s)] = " " THEN RStrip(SubSeq(s, 1, Len(s) - 1)) ELSE s
Strip(s) == RStrip(LStrip(s))

\* `pattern in combined_lower`
IsSubstring(pat, s) ==
  \E i \in 1..(Len(s) - Len(pat) + 1) : SubSeq(s, i, i + Len(pat) - 1) = pat

\* camera_mappings, in the iteration order of the dict literal
camera_mappings ==
  << [pattern |-> <<"c", "a", "n", "o", "n", " ", "e", "o", "s", " ", "r", "5">>, code |-> <<"r", "5", "a">>],
     [pattern |-> <<"c", "a", "n", "o", "n", " ", "e", "o", "s", " ", "r", "6">>, code |-> <<"r", "6", "a">>],
     [pattern |-> <<"c", "a", "n", "o", "n", " ", "e", "o", "s", " ", "5", "d">>, code |-> <<"5", "d", "a">>],
     [pattern |-> <<"c", "a", "n", "o", "n", " ", "e", "o", "s", " ", "6", "d">>, code |-> <<"6", "d", "a">>],
     [pattern |-> <<"n", "i", "k", "o", "n", " ", "d", "8", "5", "0">>, code |-> <<"d", "8", "5">>],
     [pattern |-> <<"n", "i", "k", "o", "n", " ", "d", "7", "5", "0">>, code |-> <<"d", "7", "5">>],
     [pattern |-> <<"s", "o", "n", "y", " ", "a", "7", "r">>, code |-> <<"a", "7", "r">>],
     [pattern |-> <<"s", "o", "n", "y", " ", "a", "7", " ", "i", "i", "i">>, code |-> <<"a", "7", "3">>],
     [pattern |-> <<"i", "p", "h", "o", "n", "e", " ", "1", "5">>, code |-> <<"i", "1", "5">>],
     [pattern |-> <<"i", "p", "h", "o", "n", "e", " ", "1", "4">>, code |-> <<"i", "1", "4">>],
     [pattern |-> <<"i", "p", "h", "o", "n", "e", " ", "1", "3">>, code |-> <<"i", "1", "3">>],
     [pattern |-> <<"i", "p", "h", "o", "n", "e", " ", "1", "2">>, code |-> <<"i", "1", "2">>],
     [pattern |-> <<"i", "p", "h", "o", "n", "e">>, code |-> <<"i", "p", "h">>] >>

\* the first matching entry of the for loop over camera_mappings (0: none)
FirstMapping(combined_lower) ==
  LET hits == {i \in 1..Len(camera_mappings) :
                 IsSubstring(camera_mappings[i].pattern, combined_lower)}
  IN IF hits = {} THEN 0 ELSE CHOOSE i \in hits : \A j \in hits : i <= j

\* a get_camera_code whose fallback reads combined instead of combined_lower
get_camera_code_not_lowered(camera_info) ==
  IF (IsNone(camera_info.make) \/ camera_info.make[1] = "")
     /\ (IsNone(camera_info.model) \/ camera_info.model[1] = "")
  THEN <<"u", "n", "k">>
  ELSE
    LET mk == IF IsNone(camera_info.make) THEN <<>> ELSE CharsOf(camera_info.make[1])
        md == IF IsNone(camera_info.model) THEN <<>> ELSE CharsOf(camera_info.model[1])
        combined == Strip(mk \o <<" ">> \o md)
        combined_lower == Lower(combined)
        hit == FirstMapping(combined_lower)
        clean == SelectSeq(combined, IsAlnum)
    IN IF hit # 0 THEN camera_mappings[hit].code
       ELSE IF Len(clean) >= 3 THEN SubSeq(clean, 1, 3)
       ELSE IF Len(clean) > 0
            THEN SubSeq(clean \o <<"x", "x", "x">>, 1, 3)
            ELSE <<"u", "n", "k">>

\* get_camera_code; camera_info is [make, model], each an Optional[str]
get_camera_code(camera_info) ==
  IF (IsNone(camera_info.make) \/ camera_info.make[1] = "")
     /\ (IsNone(camera_info.model) \/ camera_info.model[1] = "")
  THEN <<"u", "n", "k">>
  ELSE
    LET mk == IF IsNone(camera_info.make) THEN <<>> ELSE CharsOf(camera_info.make[1])
        md == IF IsNone(camera_info.model) THEN <<>> ELSE CharsOf(camera_info.model[1])
        combined == Strip(mk \o <<" ">> \o md)
        combined_lower == Lower(combined)
        hit == FirstMapping(combined_lower)
        clean == SelectSeq(combined_lower, IsAlnum)
    IN IF hit # 0 THEN camera_mappings[hit].code
       ELSE IF Len(clean) >= 3 THEN SubSeq(clean, 1, 3)
       ELSE IF Len(clean) > 0
            THEN SubSeq(clean \o <<"x", "x", "x">>, 1, 3)
            ELSE <<"u", "n", "k">>

\* format_timestamp: strftime("%Y%m%dT%H%M%S") of the seconds of the model
TimestampText ==
  << "20241005T143045", "20241005T143046", "20241005T143047", "20241005T143048",
     "20241005T143049", "20241005T143050" >>
format_timestamp(dt) == TimestampText[dt]

\* "-".join(parts), parts being sequences of pieces
RECURSIVE JoinDash(_)
JoinDash(parts) ==
  IF Len(parts) = 0 THEN <<>>
  ELSE IF Len(parts) = 1 THEN parts[1]
  ELSE parts[1] \o <<"-">> \o JoinDash(Tail(parts))

\* f"{base_filename}-{counter_char}{file_extension}"
CounterName(base_filename, counter, file_extension) ==
  base_filename \o <<"-", BASE32_ALPHABET[counter + 1]>> \o <<file_extension>>

\* `not existing_filenames`: None or an empty collection
ExistingFalsy(existing_filenames) ==
  IsNone(existing_filenames) \/ existing_filenames[1] = {}

\* range(32) of find_available_counter
CounterSlots == 32

\* a find_available_counter whose loop leaves out counter 0
find_available_counter_from_one(base_filename, file_extension, existing_filenames) ==
  IF ExistingFalsy(existing_filenames) THEN Some(0)
  ELSE LET free == {c \in 1..(CounterSlots - 1) :
                      CounterName(base_filename, c, file_extension)
                        \notin existing_filenames[1]}
       IN IF free = {} THEN None
          ELSE Some(CHOOSE c \in free : \A d \in free : c <= d)

\* find_available_counter: Some(counter), or None when it raises ValueError
find_available_counter(base_filename, file_extension, existing_filenames) ==
  IF ExistingFalsy(existing_filenames) THEN Some(0)
  ELSE LET free == {c \in 0..(CounterSlots - 1) :
                      CounterName(base_filename, c, file_extension)
                        \notin existing_filenames[1]}
       IN IF free = {} THEN None
          ELSE Some(CHOOSE c \in free : \A d \in free : c <= d)

\* base_filename of generate_filename; now is datetime.now()
BaseFilename(camera_info, timestamp, collection, now) ==
  JoinDash((IF collection # "" THEN << <<collection>> >> ELSE <<>>)
           \o << <<format_timestamp(IF IsNone(timestamp) THEN now ELSE timestamp[1])>> >>
           \o << get_camera_code(camera_info) >>)

\* a generate_filename that takes a counter whenever any name exists,
\* without looking whether the base name is free
generate_filename_counter_always(camera_info, timestamp, collection, file_extension, existing_filenames, now) ==
  LET base_filename == BaseFilename(camera_info, timestamp, collection, now)
  IN IF ExistingFalsy(existing_filenames)
     THEN [raised |-> FALSE, name |-> base_filename \o <<file_extension>>]
     ELSE LET counter == find_available_counter(base_filename, file_extension,
                                                existing_filenames)
          IN IF IsNone(counter) THEN [raised |-> TRUE, name |-> <<>>]
             ELSE [raised |-> FALSE,
                   name |-> CounterName(base_filename, counter[1], file_extension)]

\* generate_filename: [raised, name]; raised stands for the ValueError of
\* find_available_counter passing through
generate_filename(camera_info, timestamp, collection, file_extension, existing_filenames, now) ==
  LET base_filename == BaseFilename(camera_info, timestamp, collection, now)
      candidate_filename == base_filename \o <<file_extension>>
  IN IF ExistingFalsy(existing_filenames)
        \/ candidate_filename \notin existing_filenames[1]
     THEN [raised |-> FALSE, name |-> candidate_filename]
     ELSE LET counter == find_available_counter(base_filename, file_extension,
                                                existing_filenames)
          IN IF IsNone(counter) THEN [raised |-> TRUE, name |-> <<>>]
             ELSE [raised |-> FALSE,
                   name |-> CounterName(base_filename, counter[1], file_extension)]

(***************************************************************************)
(* The world of organize_photos: the source directory, the destination     *)
(* directory with its symlinks and its two manifest files.                 *)
(*                                                                         *)
(* A source file is [content, meta, mtime]: content names its image data,  *)
(* meta is the EXIF it carries, mtime is st_mtime in milliseconds.  The    *)
(* path of a source file is its name.  A Pic and a Manifest carry every    *)
(* field of their dataclasses.  The EXIF of the source files holds no GPS  *)
(* position, and a run is started without a collection_description.        *)
(***************************************************************************)
\* the number of files the source directory can hold
MaxFiles == 2
\* the largest st_mtime a source file reaches
MaxMtime == 2
\* the number of organize_photos runs started
MaxRuns == 2
\* the number of changes the user makes to the source directory
MaxEdits == 3

\* image data of a file
Contents == {1, 2}
\* EXIF of the files of the source directory
SourceMetas ==
  { [timestamp |-> Some(1), subsecond |-> None,
     make |-> Some("Canon"), model |-> Some("EOS R5")],
    [timestamp |-> None, subsecond |-> None, make |-> None, model |-> None] }
\* what datetime.now() can return during a run
Nows == {1, 2}
\* collection_name arguments
Collections == {"wedding"}
\* PYTHONHASHSEED of a process: the salt of the built-in hash()
HashSeeds == {0, 1}

ManifestFiles == {"manifest.json", "manifest.dryrun.json"}
\* a manifest_filename that is manifest.json for dry runs as well
manifest_filename_always_json(dry_run) == "manifest.json"

\* manifest_filename = "manifest.dryrun.json" if dry_run else "manifest.json"
manifest_filename(dry_run) == IF dry_run THEN "manifest.dryrun.json" ELSE "manifest.json"

\* f"sha256-{hash(photo_path.read_bytes())}": the salted built-in hash of
\* the bytes, in decimal
BuiltinHash(seed, f) ==
  [fn |-> "hash", seed |-> seed, content |-> f.content, meta |-> f.meta]
\* compute_file_hash: f"sha256-{hexdigest}", 64 hexadecimal digits
compute_file_hash(f) ==
  [fn |-> "sha256", seed |-> 0, content |-> f.content, meta |-> f.meta]

\* datetime.isoformat() of the seconds of the model
IsoformatText ==
  << "2024-10-05T14:30:45", "2024-10-05T14:30:46", "2024-10-05T14:30:47",
     "2024-10-05T14:30:48", "2024-10-05T14:30:49", "2024-10-05T14:30:50" >>
isoformat(dt) == IsoformatText[dt]
\* datetime.fromisoformat()
fromisoformat(text) == CHOOSE dt \in DOMAIN IsoformatText : IsoformatText[dt] = text

\* A JSON document is a record that holds a field for each key present;
\* a value that may be null is None or Some(value).

\* Pic.to_dict, as json.dumps writes it
PicToDict(pic) ==
  [source_path |-> pic.source_path, dest_path |-> pic.dest_path, hash |-> pic.hash,
   size_bytes |-> pic.size_bytes, mtime |-> pic.mtime,
   timestamp |-> IF ~IsNone(pic.timestamp) THEN Some(isoformat(pic.timestamp[1])) ELSE None,
   timestamp_source |-> pic.timestamp_source, camera |-> pic.camera,
   gps |-> pic.gps, errors |-> Some(pic.errors)]

\* one optional key of Manifest.to_dict: `if self.x is not None: result[x] = self.x`
OptionalKey(key, value) == IF ~IsNone(value) THEN key :> value ELSE <<>>

\* Manifest.to_dict
ManifestToDict(manifest) ==
  [version |-> manifest.version, collection_name |-> manifest.collection_name,
   generated_at |-> isoformat(manifest.generated_at),
   pics |-> [i \in 1..Len(manifest.pics) |-> PicToDict(manifest.pics[i])]]
  @@ OptionalKey("collection_description", manifest.collection_description)
  @@ OptionalKey("config", manifest.config)
  @@ OptionalKey("errors", manifest.errors)
  @@ OptionalKey("warnings", manifest.warnings)
  @@ OptionalKey("processing_status", manifest.processing_status)

\* ERROR_SCHEMA: an object with error_type (of the enum) and source_file
ERROR_SCHEMA(e) ==
  /\ {"error_type", "source_file"} \subseteq DOMAIN e
  /\ e.error_type \in {"corrupted_file", "unsupported_format", "exif_error",
                        "filesystem_error", "validation_error", "file_skipped"}

\* PIC_SCHEMA: the required keys, the enum of timestamp_source, the keys of
\* a gps object, errors an array of ERROR_SCHEMA objects
PIC_SCHEMA(d) ==
  /\ {"source_path", "dest_path", "hash", "size_bytes", "mtime"} \subseteq DOMAIN d
  /\ d.size_bytes >= 0
  /\ "timestamp_source" \in DOMAIN d =>
       d.timestamp_source \in {Some("exif"), Some("filename"), Some("filesystem"),
                               Some("unknown"), None}
  /\ ("gps" \in DOMAIN d /\ ~IsNone(d.gps)) => {"lat", "lon"} \subseteq DOMAIN d.gps[1]
  /\ "errors" \in DOMAIN d =>
       /\ ~IsNone(d.errors)
       /\ \A i \in 1..Len(d.errors[1]) : ERROR_SCHEMA(d.errors[1][i])

\* MANIFEST_SCHEMA: the required keys, the version constant, every entry of
\* pics a PIC_SCHEMA object, errors and warnings arrays of ERROR_SCHEMA
\* objects, processing_status an object with its required keys
MANIFEST_SCHEMA(data) ==
  /\ {"version", "collection_name", "generated_at", "pics"} \subseteq DOMAIN data
  /\ data.version = "0.1.0"
  /\ \A i \in 1..Len(data.pics) : PIC_SCHEMA(data.pics[i])
  /\ \A k \in {"errors", "warnings"} \cap DOMAIN data :
       /\ ~IsNone(data[k])
       /\ \A i \in 1..Len(data[k][1]) : ERROR_SCHEMA(data[k][1][i])
  /\ "processing_status" \in DOMAIN data =>
       /\ ~IsNone(data.processing_status)
       /\ {"status", "total_files", "processed_successfully"}
            \subseteq DOMAIN data.processing_status[1]

\* ManifestSerializer.serialize: [raised, json]; json is the document that
\* json.dumps writes, raised is "ValidationError" or "" (nothing raised)
serialize(manifest, validate) ==
  IF validate /\ ~MANIFEST_SCHEMA(ManifestToDict(manifest))
  THEN [raised |-> "ValidationError", json |-> <<>>]
  ELSE [raised |-> "", json |-> ManifestToDict(manifest)]

\* the keys deserialize reads with pic_data[...]
PicKeysRead ==
  {"timestamp", "source_path", "dest_path", "hash", "size_bytes", "mtime",
   "timestamp_source", "camera", "gps", "errors"}

\* a PicFromDict that gives every Pic an empty errors list
PicFromDict_without_errors(pic_data) ==
  [source_path |-> pic_data.source_path, dest_path |-> pic_data.dest_path,
   hash |-> pic_data.hash, size_bytes |-> pic_data.size_bytes, mtime |-> pic_data.mtime,
   timestamp |-> IF ~IsNone(pic_data.timestamp) /\ pic_data.timestamp[1] # ""
                 THEN Some(fromisoformat(pic_data.timestamp[1])) ELSE None,
   timestamp_source |-> pic_data.timestamp_source, camera |-> pic_data.camera,
   gps |-> pic_data.gps,
   errors |-> <<>>]

\* the Pic that ManifestSerializer.deserialize builds from one entry of pics
PicFromDict(pic_data) ==
  [source_path |-> pic_data.source_path, dest_path |-> pic_data.dest_path,
   hash |-> pic_data.hash, size_bytes |-> pic_data.size_bytes, mtime |-> pic_data.mtime,
   timestamp |-> IF ~IsNone(pic_data.timestamp) /\ pic_data.timestamp[1] # ""
                 THEN Some(fromisoformat(pic_data.timestamp[1])) ELSE None,
   timestamp_source |-> pic_data.timestamp_source, camera |-> pic_data.camera,
   gps |-> pic_data.gps,
   errors |-> IF IsNone(pic_data.errors) THEN <<>> ELSE pic_data.errors[1]]

\* data.get(key)
Get(data, key) == IF key \in DOMAIN data THEN data[key] ELSE None

\* no Manifest: what a deserialize that raised leaves behind
NoManifest == [version |-> "", collection_name |-> "", pics |-> <<>>]

\* ManifestSerializer.deserialize of a parsed document: [raised, manifest];
\* raised is "ValidationError", "KeyError" or "" (nothing raised)
deserialize(data) ==
  IF ~MANIFEST_SCHEMA(data) THEN [raised |-> "ValidationError", manifest |-> NoManifest]
  ELSE IF \E i \in 1..Len(data.pics) : ~(PicKeysRead \subseteq DOMAIN data.pics[i])
  THEN [raised |-> "KeyError", manifest |-> NoManifest]
  ELSE [raised |-> "",
        manifest |->
          [version |-> data.version, collection_name |-> data.collection_name,
           generated_at |-> fromisoformat(data.generated_at),
           pics |-> [i \in 1..Len(data.pics) |-> PicFromDict(data.pics[i])],
           collection_description |-> Get(data, "collection_description"),
           config |-> Get(data, "config"),
           errors |-> Get(data, "errors"),
           warnings |-> Get(data, "warnings"),
           processing_status |-> Get(data, "processing_status")]]

\* a file opened for writing and not written yet: it is empty, which
\* json.loads rejects (complete = FALSE); doc holds no document
TruncatedFile == [complete |-> FALSE, doc |-> NoManifest]

\* ManifestManager.load_manifest on a file [complete, doc] or None: None for
\* a missing file, for one that json.loads rejects and for one on which
\* deserialize raises
load_manifest(file) ==
  IF IsNone(file) THEN None
  ELSE IF ~file[1].complete THEN None
  ELSE IF deserialize(file[1].doc).raised # "" THEN None
  ELSE Some(deserialize(file[1].doc).manifest)

\* a field list that also holds a field that does not enter the file names
filename_affecting_fields_and_more == <<"collection_name", "some_other_field">>

\* filename_affecting_fields of config_affects_reprocessing
filename_affecting_fields == <<"collection_name">>

\* ManifestManager.config_affects_reprocessing; a config is a dict, here a
\* record with a field for each key present
config_affects_reprocessing(old, new) ==
  \E i \in 1..Len(filename_affecting_fields) :
    Get(old, filename_affecting_fields[i]) # Get(new, filename_affecting_fields[i])

\* Path.exists() of dest_dir / name: a symlink is followed to its target
DestExists(links, src, name) ==
  \E l \in links : l.name = name /\ \E i \in DOMAIN src :
     ~IsNone(src[i]) /\ FileNames[i] = l.target
\* whether the directory entry exists at all (a broken link does)
DestEntryExists(links, name) == \E l \in links : l.name = name

\* abs(current_mtime - previous_mtime) > 0.001, in milliseconds
MtimeEpsilon == 1
AbsDiff(a, b) == IF a >= b THEN a - b ELSE b - a

\* a needs_reprocessing without the check of the destination
needs_reprocessing_ignoring_dest(file, previous_hash, previous_mtime, dest_exists) ==
  IF IsNone(file) THEN FALSE
  ELSE IF ~IsNone(previous_mtime)
          /\ AbsDiff(file[1].mtime, previous_mtime[1]) > MtimeEpsilon THEN TRUE
  ELSE IF ~IsNone(previous_hash) /\ compute_file_hash(file[1]) # previous_hash[1] THEN TRUE
  ELSE IF IsNone(previous_hash) /\ IsNone(previous_mtime) THEN TRUE
  ELSE FALSE

\* a needs_reprocessing that reports no change when it has no baseline
needs_reprocessing_without_baseline_rule(file, previous_hash, previous_mtime, dest_exists) ==
  IF IsNone(file) THEN FALSE
  ELSE IF ~IsNone(dest_exists) /\ ~dest_exists[1] THEN TRUE
  ELSE IF ~IsNone(previous_mtime)
          /\ AbsDiff(file[1].mtime, previous_mtime[1]) > MtimeEpsilon THEN TRUE
  ELSE IF ~IsNone(previous_hash) /\ compute_file_hash(file[1]) # previous_hash[1] THEN TRUE
  ELSE FALSE

\* a needs_reprocessing whose mtime comparison is >= instead of >
needs_reprocessing_epsilon_inclusive(file, previous_hash, previous_mtime, dest_exists) ==
  IF IsNone(file) THEN FALSE
  ELSE IF ~IsNone(dest_exists) /\ ~dest_exists[1] THEN TRUE
  ELSE IF ~IsNone(previous_mtime)
          /\ AbsDiff(file[1].mtime, previous_mtime[1]) >= MtimeEpsilon THEN TRUE
  ELSE IF ~IsNone(previous_hash) /\ compute_file_hash(file[1]) # previous_hash[1] THEN TRUE
  ELSE IF IsNone(previous_hash) /\ IsNone(previous_mtime) THEN TRUE
  ELSE FALSE

\* a needs_reprocessing that trusts an equal hash and skips the mtime check
needs_reprocessing_hash_first(file, previous_hash, previous_mtime, dest_exists) ==
  IF IsNone(file) THEN FALSE
  ELSE IF ~IsNone(dest_exists) /\ ~dest_exists[1] THEN TRUE
  ELSE IF ~IsNone(previous_hash)
       THEN compute_file_hash(file[1]) # previous_hash[1]
  ELSE IF ~IsNone(previous_mtime)
          /\ AbsDiff(file[1].mtime, previous_mtime[1]) > MtimeEpsilon THEN TRUE
  ELSE IF IsNone(previous_hash) /\ IsNone(previous_mtime) THEN TRUE
  ELSE FALSE

\* a needs_reprocessing that lets a given previous_mtime decide and reads
\* the hash only without one
needs_reprocessing_mtime_decides(file, previous_hash, previous_mtime, dest_exists) ==
  IF IsNone(file) THEN FALSE
  ELSE IF ~IsNone(dest_exists) /\ ~dest_exists[1] THEN TRUE
  ELSE IF ~IsNone(previous_mtime)
       THEN AbsDiff(file[1].mtime, previous_mtime[1]) > MtimeEpsilon
  ELSE IF ~IsNone(previous_hash) THEN compute_file_hash(file[1]) # previous_hash[1]
  ELSE TRUE

\* ManifestManager.needs_reprocessing; file is the source file or None,
\* dest_exists is Some(dest_path.exists()) or None when no dest_path is given
needs_reprocessing(file, previous_hash, previous_mtime, dest_exists) ==
  IF IsNone(file) THEN FALSE
  ELSE IF ~IsNone(dest_exists) /\ ~dest_exists[1] THEN TRUE
  ELSE IF ~IsNone(previous_mtime)
          /\ AbsDiff(file[1].mtime, previous_mtime[1]) > MtimeEpsilon THEN TRUE
  ELSE IF ~IsNone(previous_hash) /\ compute_file_hash(file[1]) # previous_hash[1] THEN TRUE
  ELSE IF IsNone(previous_hash) /\ IsNone(previous_mtime) THEN TRUE
  ELSE FALSE

(***************************************************************************)
(* organize_photos, step by step.                                          *)
(***************************************************************************)
\* existing_pics_by_path.get(path): the last Pic of the manifest with that
\* source path, None when there is none or no manifest was loaded
ExistingPic(existing, path) ==
  IF IsNone(existing) THEN None
  ELSE LET pics == existing[1].pics
           hits == {i \in 1..Len(pics) : pics[i].source_path = path}
       IN IF hits = {} THEN None
          ELSE Some(pics[CHOOSE i \in hits : \A j \in hits : j <= i])

\* the change detection of one enumerated photo: TRUE when it goes to
\* photos_to_process, FALSE when its existing Pic is reused
ToProcess(src, lnk, existing, i) ==
  LET existing_pic == ExistingPic(existing, FileNames[i])
  IN IF IsNone(existing_pic) THEN TRUE
     ELSE needs_reprocessing(src[i], Some(existing_pic[1].hash),
                             Some(existing_pic[1].mtime),
                             Some(DestExists(lnk, src, existing_pic[1].dest_path)))

\* unchanged_pics, for the photos in the order source_dir.iterdir() gave
UnchangedPics(src, lnk, existing, enum) ==
  LET kept == SelectSeq(enum, LAMBDA i : ~ToProcess(src, lnk, existing, i))
  IN [n \in 1..Len(kept) |-> ExistingPic(existing, FileNames[kept[n]])[1]]

\* a PicsWithMetadata that leaves out the first photo to process
PicsWithMetadata_skipping_first(src, lnk, existing, enum) ==
  LET all == SelectSeq(enum, LAMBDA i : ToProcess(src, lnk, existing, i))
      todo == SubSeq(all, 2, Len(all))
  IN [n \in 1..Len(todo) |-> PicData(todo[n], src[todo[n]][1].meta)]

\* pics_with_metadata: extract_exif_data and extract_camera_info of the
\* photos to process
PicsWithMetadata(src, lnk, existing, enum) ==
  LET todo == SelectSeq(enum, LAMBDA i : ToProcess(src, lnk, existing, i))
  IN [n \in 1..Len(todo) |-> PicData(todo[n], src[todo[n]][1].meta)]

\* the file behind a photo path
FileOf(src, name) == src[CHOOSE i \in DOMAIN src : FileNames[i] = name][1]

\* the names already given in this batch are not passed on
ExistingFilenamesForgotten(pics) == {}

\* existing_filenames = [p.dest_path for p in pics]
ExistingFilenames(pics) == {pics[i].dest_path : i \in 1..Len(pics)}

\* the file name one iteration of _create_ordered_pics asks for
NextFilename(e, collection, pics, now) ==
  generate_filename([make |-> e.make, model |-> e.model], e.timestamp, collection,
                    ".jpg", Some(ExistingFilenames(pics)), now)

\* photo_path.stat().st_size
st_size(file) == 1024 * file.content

\* the Pic one iteration of _create_ordered_pics appends; the EXIF of the
\* model carries no GPS position, so gps is None
NewPic(e, dest_filename, file, seed) ==
  [source_path |-> e.name, dest_path |-> dest_filename,
   hash |-> BuiltinHash(seed, file), size_bytes |-> st_size(file), mtime |-> file.mtime,
   timestamp |-> e.timestamp,
   timestamp_source |-> IF ~IsNone(e.timestamp) THEN Some("exif") ELSE Some("filename"),
   camera |-> e.model, gps |-> None, errors |-> <<>>]

\* a NewManifest that lists the Pics in the opposite order
NewManifest_reversed(collection, unchanged, newly, now) ==
  LET all == unchanged \o newly
  IN [version |-> "0.1.0", collection_name |-> collection, generated_at |-> now,
      pics |-> [n \in 1..Len(all) |-> all[Len(all) + 1 - n]],
      collection_description |-> None,
      config |-> Some([collection_name |-> collection]),
      errors |-> None, warnings |-> None, processing_status |-> None]

\* Manifest(version="0.1.0", collection_name=..., generated_at=datetime.now(),
\* pics=all_pics, collection_description=..., config=...); the runs of the
\* model are started without a collection_description
NewManifest(collection, unchanged, newly, now) ==
  [version |-> "0.1.0", collection_name |-> collection, generated_at |-> now,
   pics |-> unchanged \o newly,
   collection_description |-> None,
   config |-> Some([collection_name |-> collection]),
   errors |-> None, warnings |-> None, processing_status |-> None]

(***************************************************************************)
(* State.                                                                  *)
(***************************************************************************)
VARIABLES
  pics_data,          \* the batch handed to the ordering engine
  temporally_sorted,  \* the result of _order_photos_temporally
  final_order,        \* the result of _order_photos_with_burst_preservation
  ordered,            \* whether the ordering engine has run on pics_data
  source,             \* source_dir: file index -> Optional source file
  links,              \* dest_dir: the symlinks, [name, target]
  manifest_files,     \* dest_dir: manifest file name -> Optional [complete, doc]
  pc,                 \* where the organize_photos process stands
  dry_run,            \* argument of the run
  collection_name,    \* argument of the run
  hash_seed,          \* the hash salt of the running process
  existing_manifest,  \* what load_manifest returned
  unchanged_pics,     \* the reused Pics
  ordered_pics,       \* the photos to process, ordered
  newly_processed_pics, \* the Pics _create_ordered_pics has built so far
  linked,             \* how many of them the symlink loop has passed
  manifest_json,      \* what serializer.serialize returned
  runs,               \* how many runs were started
  gf_args,            \* the arguments of a generate_filename call
  gf_now,             \* what datetime.now() returned in that call
  gf_result,          \* Optional result of the call
  edits,              \* how many changes the source directory has seen
  nr_source,          \* the file behind the source_path of needs_reprocessing
  nr_dest_on_disk,    \* whether the path given as dest_path exists
  nr_baseline,        \* the (hash, mtime) once taken of the source file
  nr_call,            \* the last needs_reprocessing call and its result
  nr_prior,           \* the call before it
  old_config,         \* arguments of a config_affects_reprocessing call
  new_config,
  config_result,      \* Optional result of that call
  ser_manifest,       \* Optional Manifest handed to serialize
  ser_json,           \* Optional JSON document: serialized, or read from a file
  ser_result,         \* Optional result of deserialize on ser_json
  eh_errors,          \* ErrorHandler.errors
  eh_warnings,        \* ErrorHandler.warnings
  eh_info_entries,    \* ErrorHandler.info_entries
  eh_calls,           \* the recording operations called on the ErrorHandler
  eh_summary          \* Optional ProcessingSummary of the last get_processing_summary

orderVars == <<pics_data, temporally_sorted, final_order, ordered>>
worldVars == <<source, links, manifest_files, edits>>
runVars == <<pc, dry_run, collection_name, hash_seed, existing_manifest,
             unchanged_pics, ordered_pics, newly_processed_pics, linked,
             manifest_json, runs>>
nameVars == <<gf_args, gf_now, gf_result>>
detectVars == <<nr_source, nr_dest_on_disk, nr_baseline, nr_call, nr_prior>>
configVars == <<old_config, new_config, config_result>>
serialVars == <<ser_manifest, ser_json, ser_result>>
errorVars == <<eh_errors, eh_warnings, eh_info_entries, eh_calls, eh_summary>>
vars == <<pics_data, temporally_sorted, final_order, ordered,
          source, links, manifest_files, edits,
          pc, dry_run, collection_name, hash_seed, existing_manifest,
          unchanged_pics, ordered_pics, newly_processed_pics, linked,
          manifest_json, runs,
          gf_args, gf_now, gf_result,
          nr_source, nr_dest_on_disk, nr_baseline, nr_call, nr_prior,
          old_config, new_config, config_result,
          ser_manifest, ser_json, ser_result,
          eh_errors, eh_warnings, eh_info_entries, eh_calls, eh_summary>>

OrderIdle ==
  pics_data = <<>> /\ temporally_sorted = <<>> /\ final_order = <<>> /\ ordered = FALSE

NoProcess ==
  /\ pc = "idle" /\ dry_run = FALSE /\ collection_name = "" /\ hash_seed = 0
  /\ existing_manifest = None /\ unchanged_pics = <<>> /\ ordered_pics = <<>>
  /\ newly_processed_pics = <<>> /\ linked = 0 /\ manifest_json = None

NameIdle == gf_args = <<>> /\ gf_now = 0 /\ gf_result = None

DetectIdle ==
  /\ nr_source = None /\ nr_dest_on_disk = FALSE /\ nr_baseline = None
  /\ nr_call = None /\ nr_prior = None

ConfigIdle == old_config = <<>> /\ new_config = <<>> /\ config_result = None

SerialIdle == ser_manifest = None /\ ser_json = None /\ ser_result = None

\* ErrorHandler.__init__
ErrorIdle ==
  /\ eh_errors = <<>> /\ eh_warnings = <<>> /\ eh_info_entries = <<>>
  /\ eh_calls = <<>> /\ eh_summary = None

PipelineIdle ==
  /\ source = [i \in 1..MaxFiles |-> None]
  /\ links = {}
  /\ manifest_files = [f \in ManifestFiles |-> None]
  /\ NoProcess
  /\ runs = 0
  /\ edits = 0

(***************************************************************************)
(* The ordering engine applied to a batch.                                 *)
(***************************************************************************)
InitOrder ==
  /\ \E k \in 0..MaxPics : \E p \in InjectiveSeqs(k) : \E ms \in [1..k -> Metas] :
       pics_data = [i \in 1..k |-> PicData(p[i], ms[i])]
  /\ temporally_sorted = <<>>
  /\ final_order = <<>>
  /\ ordered = FALSE
  /\ PipelineIdle
  /\ NameIdle
  /\ DetectIdle /\ ConfigIdle /\ SerialIdle /\ ErrorIdle

OrderPhotos ==
  /\ ~ordered
  /\ temporally_sorted' = order_photos_temporally(pics_data)
  /\ final_order' = order_photos_with_burst_preservation(pics_data)
  /\ ordered' = TRUE
  /\ UNCHANGED <<errorVars, pics_data, worldVars, runVars, nameVars, detectVars, configVars, serialVars>>

NextOrder == OrderPhotos

SpecOrder == InitOrder /\ [][NextOrder]_vars

(***************************************************************************)
(* The pipeline: the user changes the source directory between runs, and   *)
(* organize_photos runs as one process that can be killed at any step.     *)
(***************************************************************************)
Init == OrderIdle /\ PipelineIdle /\ NameIdle /\ DetectIdle /\ ConfigIdle /\ SerialIdle /\ ErrorIdle

Present == {i \in 1..MaxFiles : ~IsNone(source[i])}

\* a photo is copied into the source directory
AddFile ==
  /\ pc = "idle"
  /\ edits < MaxEdits
  /\ edits' = edits + 1
  /\ \E i \in 1..MaxFiles, c \in Contents, m \in SourceMetas :
       /\ IsNone(source[i])
       /\ source' = [source EXCEPT ![i] = Some([content |-> c, meta |-> m, mtime |-> 0])]
  /\ UNCHANGED <<errorVars, orderVars, nameVars, detectVars, configVars, serialVars, links, manifest_files, runVars>>

\* touch: a later mtime, the same bytes
TouchFile ==
  /\ pc = "idle"
  /\ edits < MaxEdits
  /\ edits' = edits + 1
  /\ \E i \in Present, t \in 1..MaxMtime :
       /\ t > source[i][1].mtime
       /\ source' = [source EXCEPT ![i] = Some([source[i][1] EXCEPT !.mtime = t])]
  /\ UNCHANGED <<errorVars, orderVars, nameVars, detectVars, configVars, serialVars, links, manifest_files, runVars>>

\* the image data of a photo is rewritten (a tool may keep the mtime)
ModifyFile ==
  /\ pc = "idle"
  /\ edits < MaxEdits
  /\ edits' = edits + 1
  /\ \E i \in Present, c \in Contents, t \in 0..MaxMtime :
       /\ c # source[i][1].content
       /\ t >= source[i][1].mtime
       /\ source' = [source EXCEPT ![i] =
                       Some([source[i][1] EXCEPT !.content = c, !.mtime = t])]
  /\ UNCHANGED <<errorVars, orderVars, nameVars, detectVars, configVars, serialVars, links, manifest_files, runVars>>

\* a photo is deleted from the source directory
RemoveFile ==
  /\ pc = "idle"
  /\ edits < MaxEdits
  /\ edits' = edits + 1
  /\ \E i \in Present : source' = [source EXCEPT ![i] = None]
  /\ UNCHANGED <<errorVars, orderVars, nameVars, detectVars, configVars, serialVars, links, manifest_files, runVars>>

\* where the run goes once every photo to process has its Pic
AfterNaming(dry) == IF dry THEN "saving" ELSE "linking"

\* the process ends: by return, by an exception or by a kill
EndProcess ==
  /\ pc' = "idle" /\ dry_run' = FALSE /\ collection_name' = "" /\ hash_seed' = 0
  /\ existing_manifest' = None /\ unchanged_pics' = <<>> /\ ordered_pics' = <<>>
  /\ newly_processed_pics' = <<>> /\ linked' = 0 /\ manifest_json' = None

\* organize_photos up to the call of _create_ordered_pics: load the
\* manifest, enumerate the source directory (in any order), detect changes,
\* extract the metadata and order the photos to process
StartRun ==
  /\ pc = "idle"
  /\ runs < MaxRuns
  /\ \E dry \in BOOLEAN, coll \in Collections, seed \in HashSeeds,
        enum \in InjectiveSeqs(Cardinality(Present)) :
       LET byIndex == CHOOSE f \in [1..Cardinality(Present) -> Present] :
                        \A a, b \in 1..Cardinality(Present) : a < b => f[a] < f[b]
           listing == [n \in 1..Cardinality(Present) |-> byIndex[enum[n]]]
           existing == load_manifest(manifest_files[manifest_filename(dry)])
           todo == order_photos_with_burst_preservation(
                     PicsWithMetadata(source, links, existing, listing))
       IN /\ dry_run' = dry
          /\ collection_name' = coll
          /\ hash_seed' = seed
          /\ existing_manifest' = existing
          /\ unchanged_pics' = UnchangedPics(source, links, existing, listing)
          /\ ordered_pics' = todo
          /\ newly_processed_pics' = <<>>
          /\ linked' = 0
          /\ pc' = IF Len(todo) = 0 THEN AfterNaming(dry) ELSE "naming"
  /\ runs' = runs + 1
  /\ UNCHANGED <<errorVars, orderVars, nameVars, detectVars, configVars, serialVars, worldVars, manifest_json>>

\* one iteration of the loop of _create_ordered_pics; the ValueError of an
\* exhausted counter ends the process
NamePic ==
  /\ pc = "naming"
  /\ \E now \in Nows :
       LET e == ordered_pics[Len(newly_processed_pics) + 1]
           r == NextFilename(e, collection_name, newly_processed_pics, now)
           pics == Append(newly_processed_pics,
                          NewPic(e, r.name, FileOf(source, e.name), hash_seed))
       IN IF r.raised
          THEN EndProcess
          ELSE /\ newly_processed_pics' = pics
               /\ pc' = IF Len(pics) = Len(ordered_pics)
                        THEN AfterNaming(dry_run) ELSE "naming"
               /\ UNCHANGED <<dry_run, collection_name, hash_seed, existing_manifest,
                              unchanged_pics, ordered_pics, linked, manifest_json>>
  /\ UNCHANGED <<errorVars, orderVars, nameVars, detectVars, configVars, serialVars, worldVars, runs>>

\* one iteration of the symlink loop: `if not dest_path.exists():
\* dest_path.symlink_to(...)`; symlink_to raises FileExistsError, which ends
\* the process, when the name is taken by a link whose target is gone
LinkPic ==
  /\ pc = "linking"
  /\ linked < Len(newly_processed_pics)
  /\ LET pic == newly_processed_pics[linked + 1]
     IN IF DestExists(links, source, pic.dest_path)
        THEN /\ linked' = linked + 1
             /\ UNCHANGED <<links, pc, dry_run, collection_name, hash_seed,
                            existing_manifest, unchanged_pics, ordered_pics,
                            newly_processed_pics, manifest_json>>
        ELSE IF DestEntryExists(links, pic.dest_path)
        THEN /\ EndProcess
             /\ UNCHANGED links
        ELSE /\ links' = links \cup {[name |-> pic.dest_path, target |-> pic.source_path]}
             /\ linked' = linked + 1
             /\ UNCHANGED <<pc, dry_run, collection_name, hash_seed,
                            existing_manifest, unchanged_pics, ordered_pics,
                            newly_processed_pics, manifest_json>>
  /\ UNCHANGED <<errorVars, orderVars, nameVars, detectVars, configVars, serialVars, source, manifest_files, edits, runs>>

\* the symlink loop is through
LinksDone ==
  /\ pc = "linking"
  /\ linked = Len(newly_processed_pics)
  /\ pc' = "saving"
  /\ UNCHANGED <<errorVars, orderVars, nameVars, detectVars, configVars, serialVars, worldVars, dry_run, collection_name,
                 hash_seed, existing_manifest, unchanged_pics, ordered_pics,
                 newly_processed_pics, linked, manifest_json, runs>>

\* Manifest(...), serializer.serialize(manifest, validate=True) and the
\* first half of manifest_file.write_text(manifest_json): open(mode='w')
\* truncates the file.  A ValidationError ends the process before the file
\* is opened.  For generated_at the clock shows the number of the run: a
\* later run has a later time.
OpenManifest ==
  /\ pc = "saving"
  /\ LET r == serialize(NewManifest(collection_name, unchanged_pics,
                                    newly_processed_pics, runs), TRUE)
     IN IF r.raised # ""
        THEN EndProcess /\ UNCHANGED manifest_files
        ELSE /\ manifest_json' = Some(r.json)
             /\ manifest_files' = [manifest_files EXCEPT ![manifest_filename(dry_run)] =
                   Some(TruncatedFile)]
             /\ pc' = "writing"
             /\ UNCHANGED <<dry_run, collection_name, hash_seed, existing_manifest,
                            unchanged_pics, ordered_pics, newly_processed_pics, linked>>
  /\ UNCHANGED <<errorVars, orderVars, nameVars, detectVars, configVars, serialVars, source, links, edits, runs>>

\* manifest_file.write_text(manifest_json), second half: the text is
\* written and the file closed
WriteManifest ==
  /\ pc = "writing"
  /\ manifest_files' = [manifest_files EXCEPT ![manifest_filename(dry_run)] =
        Some([complete |-> TRUE, doc |-> manifest_json[1]])]
  /\ pc' = "written"
  /\ UNCHANGED <<errorVars, orderVars, nameVars, detectVars, configVars, serialVars, source, links, edits, dry_run,
                 collection_name, hash_seed, existing_manifest, unchanged_pics,
                 ordered_pics, newly_processed_pics, linked, manifest_json, runs>>

\* return manifest: the process ends
Return ==
  /\ pc = "written"
  /\ EndProcess
  /\ UNCHANGED <<errorVars, orderVars, nameVars, detectVars, configVars, serialVars, worldVars, runs>>

\* the process is killed mid-way
Kill ==
  /\ pc \in {"naming", "linking", "saving", "writing"}
  /\ EndProcess
  /\ UNCHANGED <<errorVars, orderVars, nameVars, detectVars, configVars, serialVars, worldVars, runs>>

Next ==
  \/ AddFile \/ TouchFile \/ ModifyFile \/ RemoveFile
  \/ StartRun \/ NamePic \/ LinkPic \/ LinksDone
  \/ OpenManifest \/ WriteManifest \/ Return \/ Kill

Spec == Init /\ [][Next]_vars

(***************************************************************************)
(* generate_filename applied to one set of arguments.                      *)
(***************************************************************************)
\* camera_info arguments: no camera, a camera of the lookup table (twice),
\* a model of two alphanumeric characters, a make without any, a bare make
NameCameras ==
  { [make |-> None, model |-> None],
    [make |-> Some("Canon"), model |-> Some("EOS R5")],
    [make |-> Some("Apple"), model |-> Some("iPhone 15 Pro")],
    [make |-> None, model |-> Some("Z 5")],
    [make |-> Some("--"), model |-> None],
    [make |-> Some("Canon"), model |-> None] }

\* the names taken for one base name: the plain name or not, and the
\* counters below k, but for counter hole when hole is below k
NamesTaken(base_filename, file_extension, plain, k, hole) ==
  (IF plain THEN {base_filename \o <<file_extension>>} ELSE {})
  \cup {CounterName(base_filename, c, file_extension) : c \in (0..(k - 1)) \ {hole}}

\* the holes tried in the taken counters; CounterSlots stands for no hole
Holes == {0, 5, CounterSlots}

Extensions == {".jpg", ".png"}

InitName ==
  /\ \E cam \in NameCameras, ts \in {None, Some(1), Some(2)},
        coll \in {"", "wedding"}, ext \in Extensions :
       \E existing \in
            {None, Some({})}
            \cup { Some(NamesTaken(BaseFilename(cam, Some(t), coll, t), e, plain, k, hole)) :
                     t \in {1, 2}, e \in {ext}, plain \in BOOLEAN,
                     k \in 0..CounterSlots, hole \in Holes } :
         gf_args = [camera_info |-> cam, timestamp |-> ts, collection |-> coll,
                    file_extension |-> ext, existing_filenames |-> existing]
  /\ gf_now = 0
  /\ gf_result = None
  /\ OrderIdle
  /\ PipelineIdle
  /\ DetectIdle /\ ConfigIdle /\ SerialIdle /\ ErrorIdle

GenerateFilename ==
  /\ IsNone(gf_result)
  /\ \E now \in Nows :
       /\ gf_now' = now
       /\ gf_result' = Some(generate_filename(gf_args.camera_info, gf_args.timestamp,
                                              gf_args.collection, gf_args.file_extension,
                                              gf_args.existing_filenames, now))
  /\ UNCHANGED <<errorVars, gf_args, orderVars, worldVars, runVars, detectVars, configVars, serialVars>>

NextName == GenerateFilename

SpecName == InitName /\ [][NextName]_vars

(***************************************************************************)
(* needs_reprocessing called on one source file and one destination path,  *)
(* while the user changes both between the calls.                          *)
(***************************************************************************)
\* EXIF of the one source file
DetectMeta ==
  [timestamp |-> Some(1), subsecond |-> None,
   make |-> Some("Canon"), model |-> Some("EOS R5")]

\* previous_hash arguments: not given, or the sha256 string of some content
PreviousHashes ==
  {None} \cup {Some(compute_file_hash([content |-> c, meta |-> DetectMeta, mtime |-> 0])) :
                 c \in Contents}
\* previous_mtime arguments: not given, or a time in milliseconds
PreviousMtimes == {None} \cup {Some(t) : t \in 0..MaxMtime}

InitDetect ==
  /\ nr_source \in {None} \cup {Some([content |-> c, meta |-> DetectMeta, mtime |-> 0]) :
                                  c \in Contents}
  /\ nr_dest_on_disk \in BOOLEAN
  /\ nr_baseline = None
  /\ nr_call = None
  /\ nr_prior = None
  /\ OrderIdle
  /\ PipelineIdle
  /\ NameIdle
  /\ ConfigIdle /\ SerialIdle /\ ErrorIdle

\* the source file is created
CreateSource ==
  /\ IsNone(nr_source)
  /\ \E c \in Contents :
       nr_source' = Some([content |-> c, meta |-> DetectMeta, mtime |-> 0])
  /\ nr_call' = None /\ nr_prior' = None
  /\ UNCHANGED <<errorVars, nr_dest_on_disk, nr_baseline, orderVars, worldVars, runVars, nameVars, configVars, serialVars>>

\* touch: a later mtime, the same bytes
TouchSource ==
  /\ ~IsNone(nr_source)
  /\ \E t \in 1..MaxMtime :
       /\ t > nr_source[1].mtime
       /\ nr_source' = Some([nr_source[1] EXCEPT !.mtime = t])
  /\ nr_call' = None /\ nr_prior' = None
  /\ UNCHANGED <<errorVars, nr_dest_on_disk, nr_baseline, orderVars, worldVars, runVars, nameVars, configVars, serialVars>>

\* the bytes are rewritten (a tool may keep the mtime)
ModifySource ==
  /\ ~IsNone(nr_source)
  /\ \E c \in Contents, t \in 0..MaxMtime :
       /\ c # nr_source[1].content
       /\ t >= nr_source[1].mtime
       /\ nr_source' = Some([nr_source[1] EXCEPT !.content = c, !.mtime = t])
  /\ nr_call' = None /\ nr_prior' = None
  /\ UNCHANGED <<errorVars, nr_dest_on_disk, nr_baseline, orderVars, worldVars, runVars, nameVars, configVars, serialVars>>

\* the source file is deleted
RemoveSource ==
  /\ ~IsNone(nr_source)
  /\ nr_source' = None
  /\ nr_call' = None /\ nr_prior' = None
  /\ UNCHANGED <<errorVars, nr_dest_on_disk, nr_baseline, orderVars, worldVars, runVars, nameVars, configVars, serialVars>>

\* the destination appears or disappears
ChangeDest ==
  /\ nr_dest_on_disk' = ~nr_dest_on_disk
  /\ nr_call' = None /\ nr_prior' = None
  /\ UNCHANGED <<errorVars, nr_source, nr_baseline, orderVars, worldVars, runVars, nameVars, configVars, serialVars>>

\* the caller takes the baseline of the file: compute_file_hash(path) and
\* path.stat().st_mtime
TakeBaseline ==
  /\ ~IsNone(nr_source)
  /\ nr_baseline' = Some([hash |-> compute_file_hash(nr_source[1]),
                          mtime |-> nr_source[1].mtime])
  /\ nr_baseline' # nr_baseline
  /\ UNCHANGED <<errorVars, nr_source, nr_dest_on_disk, nr_call, nr_prior,
                 orderVars, worldVars, runVars, nameVars, configVars, serialVars>>

\* one call of needs_reprocessing: it reads the file system and writes
\* nothing
CallNeedsReprocessing ==
  /\ \E ph \in PreviousHashes, pm \in PreviousMtimes, dest_given \in BOOLEAN :
       nr_call' = Some([previous_hash |-> ph, previous_mtime |-> pm,
                        dest_given |-> dest_given,
                        result |-> needs_reprocessing(
                                     nr_source, ph, pm,
                                     IF dest_given THEN Some(nr_dest_on_disk) ELSE None)])
  /\ nr_prior' = nr_call
  /\ UNCHANGED <<errorVars, nr_source, nr_dest_on_disk, nr_baseline,
                 orderVars, worldVars, runVars, nameVars, configVars, serialVars>>

NextDetect ==
  \/ CreateSource \/ TouchSource \/ ModifySource \/ RemoveSource
  \/ ChangeDest \/ TakeBaseline \/ CallNeedsReprocessing

SpecDetect == InitDetect /\ [][NextDetect]_vars

(***************************************************************************)
(* config_affects_reprocessing applied to two config snapshots.            *)
(***************************************************************************)
\* config snapshots: each key absent, null or set
ConfigDicts ==
  { a @@ b @@ c :
      a \in {<<>>} \cup {"collection_name" :> v : v \in {None, Some("wedding"), Some("party")}},
      b \in {<<>>} \cup {"some_other_field" :> v : v \in {Some("old_value"), Some("new_value")}},
      c \in {<<>>} \cup {"force_reprocess" :> v : v \in {Some(FALSE), Some(TRUE)}} }

InitConfig ==
  /\ old_config \in ConfigDicts
  /\ new_config \in ConfigDicts
  /\ config_result = None
  /\ OrderIdle /\ PipelineIdle /\ NameIdle /\ DetectIdle /\ SerialIdle /\ ErrorIdle

ConfigAffectsReprocessing ==
  /\ IsNone(config_result)
  /\ config_result' = Some(config_affects_reprocessing(old_config, new_config))
  /\ UNCHANGED <<errorVars, old_config, new_config, orderVars, worldVars, runVars, nameVars,
                 detectVars, serialVars>>

NextConfig == ConfigAffectsReprocessing

SpecConfig == InitConfig /\ [][NextConfig]_vars

(***************************************************************************)
(* The serializer: a Manifest is serialized and the document read back, or *)
(* a document found in a file is deserialized.                             *)
(***************************************************************************)
\* Pic objects: every optional field null or set, a timestamp_source
\* outside the schema's enum, a gps dict with the keys _create_ordered_pics
\* writes (latitude, longitude) and one with the keys of the schema
SerialPics ==
  { [source_path |-> <<1>>, dest_path |-> <<"20241005T143045", "-", "u", "n", "k", ".jpg">>,
     hash |-> [fn |-> "sha256", seed |-> 0, content |-> 1, meta |-> DetectMeta],
     size_bytes |-> 1024, mtime |-> 1,
     timestamp |-> ts, timestamp_source |-> src, camera |-> cam, gps |-> gps,
     errors |-> errs] :
      ts \in {None, Some(1)},
      src \in {None, Some("exif"), Some("sidecar")},
      cam \in {None, Some("EOS R5")},
      gps \in {None, Some([lat |-> 59, lon |-> 18]),
               Some([latitude |-> 59, longitude |-> 18])},
      errs \in {<<>>, << [error_type |-> "exif_error", source_file |-> "1"] >>} }

\* Manifest objects: no Pic or one (and one manifest of two), every
\* optional field null or set, a version the schema does not know
SerialManifests ==
  { [version |-> v, collection_name |-> "wedding", generated_at |-> 2, pics |-> pics,
     collection_description |-> descr, config |-> cfg, errors |-> errs,
     warnings |-> None, processing_status |-> status] :
      v \in {"0.1.0", "0.2.0"},
      pics \in {<<>>} \cup {<<p>> : p \in SerialPics}
                \cup {<<p, p>> : p \in {q \in SerialPics : IsNone(q.timestamp) /\ IsNone(q.gps)}},
      descr \in {None, Some("a wedding")},
      cfg \in {None, Some([collection_name |-> "wedding"])},
      errs \in {None, Some(<<>>)},
      status \in {None, Some([status |-> "completed", total_files |-> 1,
                              processed_successfully |-> 1])} }

\* the keys a pic entry of a document holds: the four of a minimal entry,
\* the five the schema requires, or all that Pic.to_dict writes
PicKeySets ==
  { {"source_path", "dest_path", "hash", "size_bytes"},
    {"source_path", "dest_path", "hash", "size_bytes", "mtime"},
    PicKeysRead }

\* a pic entry with all keys, the optional ones null
FullPicEntry ==
  [source_path |-> <<1>>, dest_path |-> <<"20241005T143045", "-", "u", "n", "k", ".jpg">>,
   hash |-> [fn |-> "sha256", seed |-> 0, content |-> 1, meta |-> DetectMeta],
   size_bytes |-> 1024, mtime |-> 1, timestamp |-> None, timestamp_source |-> None,
   camera |-> None, gps |-> None, errors |-> Some(<<>>)]

\* documents found in a file: one or two pic entries with the keys of a
\* key set each, the optional keys of the manifest absent or null
SerialDocuments ==
  { [version |-> "0.1.0", collection_name |-> "wedding",
     generated_at |-> isoformat(2),
     pics |-> [i \in 1..Len(keys) |-> [k \in keys[i] |-> FullPicEntry[k]]]]
    @@ extra :
      keys \in {<<a>> : a \in PicKeySets} \cup {<<a, b>> : a \in PicKeySets, b \in PicKeySets},
      extra \in {<<>>, [collection_description |-> None, config |-> None]} }

InitSerial ==
  /\ \/ /\ ser_manifest \in {Some(m) : m \in SerialManifests}
        /\ ser_json = None
     \/ /\ ser_manifest = None
        /\ ser_json \in {Some([validate |-> FALSE, raised |-> "", json |-> d]) :
                           d \in SerialDocuments}
  /\ ser_result = None
  /\ OrderIdle /\ PipelineIdle /\ NameIdle /\ DetectIdle /\ ConfigIdle /\ ErrorIdle

\* serializer.serialize(manifest, validate)
Serialize ==
  /\ ~IsNone(ser_manifest)
  /\ IsNone(ser_json)
  /\ \E validate \in BOOLEAN :
       LET r == serialize(ser_manifest[1], validate)
       IN ser_json' = Some([validate |-> validate, raised |-> r.raised, json |-> r.json])
  /\ UNCHANGED <<errorVars, ser_manifest, ser_result, orderVars, worldVars, runVars, nameVars,
                 detectVars, configVars>>

\* serializer.deserialize(json_str)
Deserialize ==
  /\ ~IsNone(ser_json)
  /\ ser_json[1].raised = ""
  /\ IsNone(ser_result)
  /\ ser_result' = Some(deserialize(ser_json[1].json))
  /\ UNCHANGED <<errorVars, ser_manifest, ser_json, orderVars, worldVars, runVars, nameVars,
                 detectVars, configVars>>

NextSerial == Serialize \/ Deserialize

SpecSerial == InitSerial /\ [][NextSerial]_vars

(***************************************************************************)
(* ErrorHandler: one handler and the operations called on it.              *)
(*                                                                         *)
(* An ErrorResult is [error_type, severity, message, timestamp,            *)
(* source_file, action, details, fallback_data]; a message is the sequence *)
(* of the pieces its f-string joins.  A path is its file name.             *)
(***************************************************************************)
\* the number of entries one ErrorHandler records
MaxEntries == 3

\* ErrorType: the values of the enum
ErrorTypes ==
  {"corrupted_file", "unsupported_format", "exif_error", "filesystem_error",
   "validation_error", "file_skipped"}

\* error_type.value.upper()
ValueUpper ==
  [corrupted_file |-> "CORRUPTED_FILE", unsupported_format |-> "UNSUPPORTED_FORMAT",
   exif_error |-> "EXIF_ERROR", filesystem_error |-> "FILESYSTEM_ERROR",
   validation_error |-> "VALIDATION_ERROR", file_skipped |-> "FILE_SKIPPED"]

\* file_path.suffix.upper() of the file_path arguments
SuffixUpper == "photo.cr2" :> ".CR2"
\* file_path arguments
ErrorPaths == DOMAIN SuffixUpper

\* details and message arguments
ErrorDetails == {"Permission denied"}

\* fallback_timestamp arguments: not given, empty, or a timestamp
FallbackTimestamps == {None, Some(""), Some("2024-10-05T14:30:45")}

\* an _add_entry that files every entry under warnings
add_entry_all_warnings(h, error_type, severity, source_file, message, action, fallback_data, now) ==
  LET result == [error_type |-> error_type, severity |-> severity, message |-> message,
                 timestamp |-> isoformat(now), source_file |-> Some(source_file),
                 action |-> IF ~IsNone(action) THEN action[1]
                            ELSE IF severity = "info" THEN "processed" ELSE "skip",
                 details |-> None, fallback_data |-> fallback_data]
  IN [h EXCEPT !.warnings = Append(@, result)]

\* ErrorHandler._add_entry: the handler h = [errors, warnings, info_entries]
\* after the call; action is None when the caller leaves it out
add_entry(h, error_type, severity, source_file, message, action, fallback_data, now) ==
  LET result == [error_type |-> error_type, severity |-> severity, message |-> message,
                 timestamp |-> isoformat(now), source_file |-> Some(source_file),
                 action |-> IF ~IsNone(action) THEN action[1]
                            ELSE IF severity = "info" THEN "processed" ELSE "skip",
                 details |-> None, fallback_data |-> fallback_data]
  IN IF severity = "info" THEN [h EXCEPT !.info_entries = Append(@, result)]
     ELSE IF severity = "warning" THEN [h EXCEPT !.warnings = Append(@, result)]
     ELSE [h EXCEPT !.errors = Append(@, result)]

\* ErrorHandler.handle_corrupted_file
handle_corrupted_file(h, file_path, details, now) ==
  add_entry(h, "corrupted_file", "warning", file_path,
            <<"Corrupted file '", file_path, "': ", details>>, None, None, now)

\* ErrorHandler.handle_unsupported_format
handle_unsupported_format(h, file_path, now) ==
  add_entry(h, "unsupported_format", "info", file_path,
            <<"File format '", SuffixUpper[file_path], "' not supported for '", file_path, "'">>,
            Some("skip"), None, now)

\* ErrorHandler.handle_exif_extraction_failure; `if fallback_timestamp:` is
\* false for None and for the empty string
handle_exif_extraction_failure(h, file_path, details, fallback_timestamp, now) ==
  LET message == <<"EXIF extraction failed for '", file_path, "': ", details>>
  IN IF ~IsNone(fallback_timestamp) /\ fallback_timestamp[1] # ""
     THEN add_entry(h, "exif_error", "warning", file_path,
                    message \o <<" (using fallback timestamp)">>,
                    Some("continue_with_fallback"),
                    Some([timestamp |-> fallback_timestamp[1]]), now)
     ELSE add_entry(h, "exif_error", "warning", file_path, message, Some("skip"), None, now)

\* ErrorHandler.handle_filesystem_error
handle_filesystem_error(h, file_path, details, now) ==
  add_entry(h, "filesystem_error", "error", file_path,
            <<"Filesystem error for '", file_path, "': ", details>>, None, None, now)

\* the formatted_message of add_warning, add_error and add_info
formatted_message(error_type, file_path, message) ==
  <<ValueUpper[error_type], ": ", message, " (file: ", file_path, ")">>

\* ErrorHandler.add_warning
add_warning(h, error_type, file_path, message, now) ==
  add_entry(h, error_type, "warning", file_path,
            formatted_message(error_type, file_path, message), None, None, now)

\* ErrorHandler.add_error
add_error(h, error_type, file_path, message, now) ==
  add_entry(h, error_type, "error", file_path,
            formatted_message(error_type, file_path, message), None, None, now)

\* ErrorHandler.add_info
add_info(h, error_type, file_path, message, now) ==
  add_entry(h, error_type, "info", file_path,
            formatted_message(error_type, file_path, message), None, None, now)

\* ErrorHandler.has_blocking_errors
has_blocking_errors(h) == Len(h.errors) > 0

\* a get_processing_summary that subtracts the skipped entries whether or
\* not there are blocking errors
get_processing_summary_without_blocking_rule(h) ==
  LET all == h.info_entries \o h.warnings \o h.errors
      total_files == Len(h.info_entries) + Len(h.warnings) + Len(h.errors)
      files_skipped == Len(SelectSeq(all, LAMBDA e : e.action = "skip"))
  IN [total_files_processed |-> total_files,
      info_count |-> Len(h.info_entries), warning_count |-> Len(h.warnings),
      error_count |-> Len(h.errors), has_blocking_errors |-> has_blocking_errors(h),
      files_skipped |-> files_skipped,
      files_processed_successfully |-> total_files - files_skipped]

\* ErrorHandler.get_processing_summary
get_processing_summary(h) ==
  LET all == h.info_entries \o h.warnings \o h.errors
      total_files == Len(h.info_entries) + Len(h.warnings) + Len(h.errors)
      files_skipped == Len(SelectSeq(all, LAMBDA e : e.action = "skip"))
  IN [total_files_processed |-> total_files,
      info_count |-> Len(h.info_entries), warning_count |-> Len(h.warnings),
      error_count |-> Len(h.errors), has_blocking_errors |-> has_blocking_errors(h),
      files_skipped |-> files_skipped,
      files_processed_successfully |->
        IF has_blocking_errors(h) THEN 0 ELSE total_files - files_skipped]

\* the handler of the state
Handler == [errors |-> eh_errors, warnings |-> eh_warnings, info_entries |-> eh_info_entries]

InitError ==
  /\ ErrorIdle
  /\ OrderIdle /\ PipelineIdle /\ NameIdle /\ DetectIdle /\ ConfigIdle /\ SerialIdle

\* datetime.now() of a recording operation: the clock shows the number of
\* the call, a later call has a later time
ErrorNow == Len(eh_calls) + 1

\* a recording operation can be called: the handler has room
CanRecord == Len(eh_calls) < MaxEntries

\* the state after a recording operation op that left the handler h
Recorded(h, op, now) ==
  /\ eh_errors' = h.errors
  /\ eh_warnings' = h.warnings
  /\ eh_info_entries' = h.info_entries
  /\ eh_calls' = Append(eh_calls, [op |-> op, now |-> now])
  /\ eh_summary' = None
  /\ UNCHANGED <<orderVars, worldVars, runVars, nameVars, detectVars, configVars, serialVars>>

HandleCorruptedFile ==
  \E file_path \in ErrorPaths, details \in ErrorDetails :
    /\ CanRecord
    /\ Recorded(handle_corrupted_file(Handler, file_path, details, ErrorNow),
                "handle_corrupted_file", ErrorNow)

HandleUnsupportedFormat ==
  \E file_path \in ErrorPaths :
    /\ CanRecord
    /\ Recorded(handle_unsupported_format(Handler, file_path, ErrorNow),
                "handle_unsupported_format", ErrorNow)

HandleExifExtractionFailure ==
  \E file_path \in ErrorPaths, details \in ErrorDetails,
     fallback_timestamp \in FallbackTimestamps :
    /\ CanRecord
    /\ Recorded(handle_exif_extraction_failure(Handler, file_path, details,
                                               fallback_timestamp, ErrorNow),
                "handle_exif_extraction_failure", ErrorNow)

HandleFilesystemError ==
  \E file_path \in ErrorPaths, details \in ErrorDetails :
    /\ CanRecord
    /\ Recorded(handle_filesystem_error(Handler, file_path, details, ErrorNow),
                "handle_filesystem_error", ErrorNow)

AddWarning ==
  \E error_type \in ErrorTypes, file_path \in ErrorPaths, message \in ErrorDetails :
    /\ CanRecord
    /\ Recorded(add_warning(Handler, error_type, file_path, message, ErrorNow), "add_warning", ErrorNow)

AddError ==
  \E error_type \in ErrorTypes, file_path \in ErrorPaths, message \in ErrorDetails :
    /\ CanRecord
    /\ Recorded(add_error(Handler, error_type, file_path, message, ErrorNow), "add_error", ErrorNow)

AddInfo ==
  \E error_type \in ErrorTypes, file_path \in ErrorPaths, message \in ErrorDetails :
    /\ CanRecord
    /\ Recorded(add_info(Handler, error_type, file_path, message, ErrorNow), "add_info", ErrorNow)

\* get_processing_summary: the handler is read, the caller keeps the summary
GetProcessingSummary ==
  /\ eh_summary' = Some(get_processing_summary(Handler))
  /\ eh_summary' # eh_summary
  /\ UNCHANGED <<eh_errors, eh_warnings, eh_info_entries, eh_calls,
                 orderVars, worldVars, runVars, nameVars, detectVars, configVars, serialVars>>

NextError ==
  \/ HandleCorruptedFile \/ HandleUnsupportedFormat \/ HandleExifExtractionFailure
  \/ HandleFilesystemError \/ AddWarning \/ AddError \/ AddInfo
  \/ GetProcessingSummary

SpecError == InitError /\ [][NextError]_vars

(***************************************************************************)
(* Properties of the ordering engine (checked under SpecOrder).            *)
(***************************************************************************)
\* pics_data enumerated in another order
Permuted(pics, p) == [i \in 1..Len(pics) |-> pics[p[i]]]

HasTimestamp(e) == ~IsNone(e.timestamp)
SameSecond(a, b) == HasTimestamp(a) /\ HasTimestamp(b) /\ a.timestamp[1] = b.timestamp[1]

\* the same batch enumerated in the order of its file names
RECURSIVE InsertByName(_, _)
InsertByName(x, s) ==
  IF Len(s) = 0 THEN <<x>>
  ELSE IF StrLess(x.name, Head(s).name) THEN <<x>> \o s
  ELSE <<Head(s)>> \o InsertByName(x, Tail(s))

RECURSIVE EnumeratedByName(_)
EnumeratedByName(pics) ==
  IF Len(pics) = 0 THEN <<>>
  ELSE InsertByName(Head(pics), EnumeratedByName(Tail(pics)))

\* the enumerations next to pics_data: two neighbours exchanged
AdjacentSwaps(n) ==
  { [i \in 1..n |-> IF i = m THEN m + 1 ELSE IF i = m + 1 THEN m ELSE i] :
      m \in 1..(n - 1) }

\* C1: the output of _order_photos_with_burst_preservation is the same for
\* every permutation of the input list.  SpecOrder starts from every
\* enumeration of every batch, so the claim is that each enumeration gives
\* the output of the batch's enumeration by file name (one fixed list per
\* batch), and that exchanging two neighbours of the input changes nothing.
C1_OrderInputInvariant ==
  ordered =>
    /\ order_photos_with_burst_preservation(EnumeratedByName(pics_data)) = final_order
    /\ \A p \in AdjacentSwaps(Len(pics_data)) :
         order_photos_with_burst_preservation(Permuted(pics_data, p)) = final_order

\* a batch with two entries of equal time key, enumerated in another order
\* than the output, whose same-second group the burst step regrouped
C1_Witness ==
  /\ ordered
  /\ Len(pics_data) >= 3
  /\ final_order # pics_data
  /\ final_order # temporally_sorted
  /\ \E i, j \in 1..Len(pics_data) :
       /\ i # j
       /\ SameSecond(pics_data[i], pics_data[j])
       /\ FullTimestampMs(pics_data[i]) = FullTimestampMs(pics_data[j])

\* C2: of two same-second entries, the one with a subsecond value in 1..999
\* comes before the one without a subsecond value in the temporal order.
C2_SubsecondBeforeNone ==
  ordered =>
    \A i, j \in 1..Len(temporally_sorted) :
      LET a == temporally_sorted[i]
          b == temporally_sorted[j]
      IN (/\ SameSecond(a, b)
          /\ ~IsNone(a.subsecond) /\ a.subsecond[1] \in 1..999
          /\ IsNone(b.subsecond)) => i < j

\* C3: of two same-second entries, one with subsecond = 0 and one with
\* subsecond = None, the one with subsecond = 0 comes first.
C3_ZeroSubsecondBeforeNone ==
  ordered =>
    \A i, j \in 1..Len(temporally_sorted) :
      LET a == temporally_sorted[i]
          b == temporally_sorted[j]
      IN (/\ SameSecond(a, b)
          /\ a.subsecond = Some(0)
          /\ IsNone(b.subsecond)) => i < j

\* entries without a timestamp come last, in lexicographic file name order
UntimedLastByName(out) ==
  \A i, j \in 1..Len(out) :
    /\ (HasTimestamp(out[i]) /\ ~HasTimestamp(out[j])) => i < j
    /\ (~HasTimestamp(out[i]) /\ ~HasTimestamp(out[j]) /\ i < j)
         => StrLess(out[i].name, out[j].name)

\* C4: every entry without a timestamp comes after every entry with one, and
\* the entries without a timestamp are in lexicographic order of file name.
C4_UntimedLastByName ==
  ordered => (UntimedLastByName(temporally_sorted) /\ UntimedLastByName(final_order)
              /\ Len(final_order) = Len(pics_data))

\* the batch lists an untimed entry before a timed one, and two untimed
\* entries against their name order
C4_Witness ==
  /\ ordered
  /\ \E i, j \in 1..Len(pics_data) :
       i < j /\ ~HasTimestamp(pics_data[i]) /\ HasTimestamp(pics_data[j])
  /\ \E i, j \in 1..Len(pics_data) :
       /\ i < j /\ ~HasTimestamp(pics_data[i]) /\ ~HasTimestamp(pics_data[j])
       /\ StrLess(pics_data[j].name, pics_data[i].name)

\* C5: among the output entries of one whole second, no entry of another
\* camera lies between two entries of the same camera.
C5_CamerasContiguous ==
  ordered =>
    \A i, j, k \in 1..Len(final_order) :
      (/\ i < j /\ j < k
       /\ SameSecond(final_order[i], final_order[j])
       /\ SameSecond(final_order[i], final_order[k])
       /\ cam_key(final_order[i]) = cam_key(final_order[k]))
      => cam_key(final_order[j]) = cam_key(final_order[i])

(***************************************************************************)
(* Properties of the pipeline (checked under Spec).                        *)
(***************************************************************************)
\* the dest_path values of a list of Pics (or of pics entries) are
\* pairwise distinct
DestPathsDistinct(pics) ==
  \A a, b \in 1..Len(pics) : a # b => pics[a].dest_path # pics[b].dest_path

AsRecorded(i, ep) ==
  /\ ~IsNone(source[i])
  /\ source[i][1].mtime = ep.mtime
  /\ source[i][1].content = ep.hash.content
  /\ source[i][1].meta = ep.hash.meta

\* C7: on a second run, a file whose content and mtime are unchanged since
\* the first run and whose destination symlink exists is classified as
\* unchanged: it is not processed again and its Pic is the recorded one.
\* (linked = 0: no symlink was added since the change detection.)
C7_UnchangedFileReused ==
  (pc # "idle" /\ linked = 0) =>
    \A i \in 1..MaxFiles :
      LET ep == ExistingPic(existing_manifest, FileNames[i])
      IN (/\ ~IsNone(ep)
          /\ AsRecorded(i, ep[1])
          /\ DestExists(links, source, ep[1].dest_path))
         => /\ ep[1] \in Range(unchanged_pics)
            /\ \A n \in 1..Len(ordered_pics) : ordered_pics[n].name # FileNames[i]

\* C8: for a source file unchanged between two consecutive runs, the
\* dest_path, hash and mtime of its Pic in the new manifest equal those in
\* the previous manifest.  (Stated for the files whose recorded symlink is
\* in place.)
C8_UnchangedFileKeepsRecord ==
  pc = "written" =>
    \A i \in 1..MaxFiles :
      LET ep == ExistingPic(existing_manifest, FileNames[i])
          np == ExistingPic(load_manifest(manifest_files[manifest_filename(dry_run)]),
                            FileNames[i])
      IN (/\ ~IsNone(ep)
          /\ AsRecorded(i, ep[1])
          /\ [name |-> ep[1].dest_path, target |-> FileNames[i]] \in links)
         => /\ ~IsNone(np)
            /\ np[1].dest_path = ep[1].dest_path
            /\ np[1].hash = ep[1].hash
            /\ np[1].mtime = ep[1].mtime

\* C9: at every point of a run, killed or not, the manifest file on disk is
\* a complete manifest (of the previous run or of this one).
C9_ManifestAlwaysComplete ==
  \A f \in ManifestFiles :
    ~IsNone(manifest_files[f]) => manifest_files[f][1].complete

(***************************************************************************)
(* Properties of generate_filename (checked under SpecName).               *)
(***************************************************************************)
\* the name without a counter: base name plus extension
PlainName(args, now) ==
  JoinDash((IF args.collection # "" THEN << <<args.collection>> >> ELSE <<>>)
           \o << <<TimestampText[IF IsNone(args.timestamp) THEN now
                                 ELSE args.timestamp[1]]>> >>
           \o << get_camera_code(args.camera_info) >>)
  \o <<args.file_extension>>

FreeCounters(args, now) ==
  LET plain == PlainName(args, now)
      base == SubSeq(plain, 1, Len(plain) - 1)
  IN {c \in 0..31 :
        base \o <<"-", BASE32_ALPHABET[c + 1], args.file_extension>>
          \notin args.existing_filenames[1]}

\* C11: when base name plus extension is in existing_filenames, the result
\* is base-<c><ext> for the lowest counter c of 0..31 whose name is not in
\* existing_filenames, and so is not a member of existing_filenames; when
\* all 32 counter names are taken the call raises and returns no name.
C11_LowestFreeCounter ==
  (/\ ~IsNone(gf_result)
   /\ ~IsNone(gf_args.existing_filenames)
   /\ PlainName(gf_args, gf_now) \in gf_args.existing_filenames[1])
  => LET plain == PlainName(gf_args, gf_now)
         base == SubSeq(plain, 1, Len(plain) - 1)
         free == FreeCounters(gf_args, gf_now)
     IN IF free = {}
        THEN gf_result[1] = [raised |-> TRUE, name |-> <<>>]
        ELSE /\ ~gf_result[1].raised
             /\ \E c \in free :
                  /\ \A d \in free : c <= d
                  /\ gf_result[1].name =
                       base \o <<"-", BASE32_ALPHABET[c + 1], gf_args.file_extension>>
             /\ gf_result[1].name \notin gf_args.existing_filenames[1]

\* the plain name and the counters 0..4 are taken, 5 is free and later
\* counters are taken again: the call returned the name with counter 5
C11_Witness ==
  /\ ~IsNone(gf_result)
  /\ ~IsNone(gf_args.existing_filenames)
  /\ PlainName(gf_args, gf_now) \in gf_args.existing_filenames[1]
  /\ FreeCounters(gf_args, gf_now) = {5}
  /\ ~gf_result[1].raised
  /\ gf_result[1].name[Len(gf_result[1].name) - 1] = "5"

\* all 32 counter names and the plain name are taken: the call raised
C11_Exhausted ==
  /\ ~IsNone(gf_result)
  /\ ~IsNone(gf_args.existing_filenames)
  /\ PlainName(gf_args, gf_now) \in gf_args.existing_filenames[1]
  /\ FreeCounters(gf_args, gf_now) = {}
  /\ gf_result[1].raised

\* the camera code inside a name that generate_filename returned: the three
\* pieces after the timestamp and its dash
CodeInName(args, name) ==
  LET at == IF args.collection # "" THEN 5 ELSE 3
  IN SubSeq(name, at, at + 2)

\* a make or model that is given and not empty
Given(o) == ~IsNone(o) /\ o[1] # ""

\* "make model" in lowercase
MakeModelLower(camera_info) ==
  Lower((IF IsNone(camera_info.make) THEN <<>> ELSE CharsOf(camera_info.make[1]))
        \o <<" ">>
        \o (IF IsNone(camera_info.model) THEN <<>> ELSE CharsOf(camera_info.model[1])))

\* code is chosen as the claim has it: a table code whose pattern occurs in
\* "make model"; else the first three alphanumeric characters, padded with
\* x; "unk" without make and model.  when_bare is the code of a camera
\* whose make and model hold no alphanumeric character at all.
ChosenAsStated(camera_info, code, when_bare) ==
  LET mm == MakeModelLower(camera_info)
      alnum == SelectSeq(mm, IsAlnum)
      inTable == {i \in 1..Len(camera_mappings) :
                    IsSubstring(camera_mappings[i].pattern, mm)}
  IN IF ~Given(camera_info.make) /\ ~Given(camera_info.model)
     THEN code = <<"u", "n", "k">>
     ELSE IF inTable # {} THEN \E i \in inTable : code = camera_mappings[i].code
     ELSE IF Len(alnum) >= 3 THEN code = SubSeq(alnum, 1, 3)
     ELSE IF Len(alnum) > 0 THEN code = SubSeq(alnum \o <<"x", "x", "x">>, 1, 3)
     ELSE code = when_bare

\* three characters, none an upper-case letter
ThreeLowercase(code) ==
  Len(code) = 3 /\ \A i \in 1..Len(code) : code[i] \notin DOMAIN UpperToLower

\* C13 as stated: get_camera_code returns exactly 3 lowercase characters:
\* the code of a table entry whose pattern is a case-insensitive substring
\* of "make model"; else the first 3 alphanumeric characters of "make model"
\* in lowercase, right-padded with x when fewer than 3 are available (xxx
\* when none is); unk when neither make nor model is present.
C13_CameraCodeAsStated ==
  (~IsNone(gf_result) /\ ~gf_result[1].raised) =>
    LET code == CodeInName(gf_args, gf_result[1].name)
    IN /\ ThreeLowercase(code)
       /\ ChosenAsStated(gf_args.camera_info, code, <<"x", "x", "x">>)

\* C13, amended: as stated, but the code is unk also when make and model
\* hold no alphanumeric character (the padding applies to one or two
\* alphanumeric characters only).
C13_CameraCode ==
  (~IsNone(gf_result) /\ ~gf_result[1].raised) =>
    LET code == CodeInName(gf_args, gf_result[1].name)
    IN /\ ThreeLowercase(code)
       /\ ChosenAsStated(gf_args.camera_info, code, <<"u", "n", "k">>)

\* a make is given, it holds no alphanumeric character, and the name that
\* was returned carries the code unk
C13_Witness ==
  /\ ~IsNone(gf_result) /\ ~gf_result[1].raised
  /\ Given(gf_args.camera_info.make)
  /\ SelectSeq(MakeModelLower(gf_args.camera_info), IsAlnum) = <<>>
  /\ CodeInName(gf_args, gf_result[1].name) = <<"u", "n", "k">>

(***************************************************************************)
(* Properties of needs_reprocessing (checked under SpecDetect).  Times are *)
(* in milliseconds: 0.001 s is 1.                                          *)
(***************************************************************************)
\* the last call was made with a dest_path that is not on disk
DestMissingCall == ~IsNone(nr_call) /\ nr_call[1].dest_given /\ ~nr_dest_on_disk

\* C14 as stated: needs_reprocessing returns true whenever dest_path is
\* supplied and does not exist on disk, for every source path and every
\* combination of previous_hash and previous_mtime.
C14_TrueWhenDestMissing ==
  DestMissingCall => nr_call[1].result = TRUE

\* C14, amended: the same for every source path that exists.
C14_TrueWhenDestMissingAndSourceExists ==
  (DestMissingCall /\ ~IsNone(nr_source)) => nr_call[1].result = TRUE

\* the source file is as both baselines of the call say, and only the
\* missing destination makes the result true
C14_Witness ==
  /\ DestMissingCall
  /\ ~IsNone(nr_source)
  /\ nr_call[1].previous_hash = Some(compute_file_hash(nr_source[1]))
  /\ nr_call[1].previous_mtime = Some(nr_source[1].mtime)
  /\ nr_call[1].result = TRUE

\* the last call was made without previous_hash and without previous_mtime
NoBaselineCall ==
  /\ ~IsNone(nr_call)
  /\ IsNone(nr_call[1].previous_hash)
  /\ IsNone(nr_call[1].previous_mtime)

\* C15 as stated: needs_reprocessing returns true whenever neither
\* previous_hash nor previous_mtime is supplied, for every source path and
\* every dest_path argument.
C15_TrueWithoutBaseline ==
  NoBaselineCall => nr_call[1].result = TRUE

\* C15, amended: the same for every source path that exists.
C15_TrueWithoutBaselineAndSourceExists ==
  (NoBaselineCall /\ ~IsNone(nr_source)) => nr_call[1].result = TRUE

\* a call without baselines on an existing file whose destination is given
\* and on disk returned true
C15_Witness ==
  /\ NoBaselineCall
  /\ ~IsNone(nr_source)
  /\ nr_call[1].dest_given /\ nr_dest_on_disk
  /\ nr_call[1].result = TRUE

\* the last call reached the mtime check: the source exists, the
\* destination is on disk or not given, previous_mtime is given
MtimeCheckedCall ==
  /\ ~IsNone(nr_call)
  /\ ~IsNone(nr_source)
  /\ (nr_call[1].dest_given => nr_dest_on_disk)
  /\ ~IsNone(nr_call[1].previous_mtime)

\* C16: when the source exists, the destination is present or not given
\* and previous_mtime is given, the result is true if the source mtime
\* differs from previous_mtime by more than 0.001 s, also when the content
\* hash is unchanged; with a difference of at most 0.001 s the result is
\* true only for a previous_hash that differs from the file's hash.
C16_MtimeEpsilon ==
  MtimeCheckedCall =>
    LET now == nr_source[1].mtime
        was == nr_call[1].previous_mtime[1]
        delta == IF now >= was THEN now - was ELSE was - now
        hashDiffers == /\ ~IsNone(nr_call[1].previous_hash)
                       /\ nr_call[1].previous_hash[1] # compute_file_hash(nr_source[1])
    IN IF delta > 1 THEN nr_call[1].result = TRUE
       ELSE nr_call[1].result = hashDiffers

\* the mtime moved by 2 ms, the hash given is the file's, the result is
\* true; the call before, on the same file with a previous_mtime 1 ms off,
\* returned false
C16_Witness ==
  /\ MtimeCheckedCall
  /\ nr_source[1].mtime = nr_call[1].previous_mtime[1] + 2
  /\ nr_call[1].previous_hash = Some(compute_file_hash(nr_source[1]))
  /\ nr_call[1].result = TRUE
  /\ ~IsNone(nr_prior)
  /\ nr_prior[1].previous_mtime = Some(nr_source[1].mtime - 1)
  /\ nr_prior[1].previous_hash = nr_call[1].previous_hash
  /\ nr_prior[1].result = FALSE

\* a recorded call that reaches the comparisons: the destination is not
\* given or on disk
Comparing(call) == call.dest_given => nr_dest_on_disk

\* the source file has the bytes of the baseline
SameBytesAsBaseline ==
  /\ ~IsNone(nr_baseline) /\ ~IsNone(nr_source)
  /\ compute_file_hash(nr_source[1]) = nr_baseline[1].hash

\* the two recorded calls were made on a file untouched since the baseline,
\* both with the baseline's hash and mtime: both returned false
TwiceFalseWhenUntouched ==
  (/\ ~IsNone(nr_prior) /\ ~IsNone(nr_call)
   /\ SameBytesAsBaseline
   /\ nr_source[1].mtime = nr_baseline[1].mtime
   /\ \A c \in {nr_prior[1], nr_call[1]} :
        /\ Comparing(c)
        /\ c.previous_hash = Some(nr_baseline[1].hash)
        /\ c.previous_mtime = Some(nr_baseline[1].mtime))
  => (nr_prior[1].result = FALSE /\ nr_call[1].result = FALSE)

\* two calls with the same arguments and no change in between agree
SameCallSameResult ==
  (/\ ~IsNone(nr_prior) /\ ~IsNone(nr_call)
   /\ nr_prior[1].previous_hash = nr_call[1].previous_hash
   /\ nr_prior[1].previous_mtime = nr_call[1].previous_mtime
   /\ nr_prior[1].dest_given = nr_call[1].dest_given)
  => nr_prior[1].result = nr_call[1].result

\* after a bump of the mtime by more than least, with the bytes of the
\* baseline: a call with the baseline's hash alone returns false, a call
\* with the baseline's mtime returns true
BumpSeenByMtimeOnly(least) ==
  (/\ ~IsNone(nr_call)
   /\ SameBytesAsBaseline
   /\ nr_source[1].mtime - nr_baseline[1].mtime > least
   /\ Comparing(nr_call[1]))
  => /\ (/\ nr_call[1].previous_hash = Some(nr_baseline[1].hash)
          /\ IsNone(nr_call[1].previous_mtime)) => nr_call[1].result = FALSE
     /\ nr_call[1].previous_mtime = Some(nr_baseline[1].mtime)
          => nr_call[1].result = TRUE

\* C17 as stated: needs_reprocessing changes no state: called twice with the
\* same (hash, mtime) baselines on a file not touched in between, both
\* calls return false; after the file's mtime is bumped (by any amount)
\* without a content change, a call with previous_hash alone still returns
\* false and a call with the old previous_mtime returns true.
C17_IdempotentAndMtimeBump ==
  TwiceFalseWhenUntouched /\ SameCallSameResult /\ BumpSeenByMtimeOnly(0)

\* C17, amended: the same, for an mtime bumped by more than 0.001 s.
C17_IdempotentAndMtimeBumpBeyondEpsilon ==
  TwiceFalseWhenUntouched /\ SameCallSameResult /\ BumpSeenByMtimeOnly(1)

\* after a bump of 2 ms the call with the baseline's hash alone returned
\* false and the next call, with hash and old mtime, returned true
C17_Witness ==
  /\ SameBytesAsBaseline
  /\ nr_source[1].mtime = nr_baseline[1].mtime + 2
  /\ ~IsNone(nr_prior) /\ ~IsNone(nr_call)
  /\ nr_prior[1].previous_hash = Some(nr_baseline[1].hash)
  /\ IsNone(nr_prior[1].previous_mtime)
  /\ nr_prior[1].result = FALSE
  /\ nr_call[1].previous_hash = Some(nr_baseline[1].hash)
  /\ nr_call[1].previous_mtime = Some(nr_baseline[1].mtime)
  /\ nr_call[1].result = TRUE

\* the file is untouched since the baseline and two calls with the
\* baseline's hash and mtime both returned false
C17_TwiceFalse ==
  /\ SameBytesAsBaseline
  /\ nr_source[1].mtime = nr_baseline[1].mtime
  /\ ~IsNone(nr_prior) /\ ~IsNone(nr_call)
  /\ nr_prior[1] = nr_call[1]
  /\ nr_call[1].previous_hash = Some(nr_baseline[1].hash)
  /\ nr_call[1].previous_mtime = Some(nr_baseline[1].mtime)
  /\ nr_call[1].result = FALSE

(***************************************************************************)
(* Properties of config_affects_reprocessing (checked under SpecConfig).   *)
(***************************************************************************)
\* the collection_name of a config snapshot; None when it has none
CollectionNameOf(config) ==
  IF "collection_name" \in DOMAIN config THEN config.collection_name ELSE None

\* C18: config_affects_reprocessing(old, new) is true if and only if the
\* collection_name values of the two snapshots differ; a difference in any
\* other field never makes it true.
C18_OnlyCollectionName ==
  ~IsNone(config_result) =>
    (config_result[1] <=> CollectionNameOf(old_config) # CollectionNameOf(new_config))

\* two snapshots of one collection_name that differ in both other fields:
\* the result is false
C18_Witness ==
  /\ config_result = Some(FALSE)
  /\ {"collection_name", "some_other_field", "force_reprocess"} \subseteq DOMAIN old_config
  /\ DOMAIN new_config = DOMAIN old_config
  /\ old_config.collection_name = Some("wedding")
  /\ new_config.some_other_field # old_config.some_other_field
  /\ new_config.force_reprocess # old_config.force_reprocess

(***************************************************************************)
(* Properties of the serializer (checked under SpecSerial).                *)
(***************************************************************************)
\* a Manifest was serialized and the document deserialized
RoundTripDone == ~IsNone(ser_manifest) /\ ~IsNone(ser_json) /\ ~IsNone(ser_result)

\* the manifest passes ManifestSerializer.validate
PassesValidation(manifest) == serialize(manifest, TRUE).raised = ""

\* C19: for every manifest m that passes schema validation,
\* deserialize(serialize(m)) equals m in every field of the manifest and of
\* each Pic, including the optional fields that are null and the timestamps.
C19_RoundTrip ==
  (RoundTripDone /\ PassesValidation(ser_manifest[1])) =>
    /\ ser_result[1].raised = ""
    /\ ser_result[1].manifest = ser_manifest[1]
    /\ \A i \in 1..Len(ser_manifest[1].pics) :
         \A k \in PicKeysRead : ser_result[1].manifest.pics[i][k] = ser_manifest[1].pics[i][k]

\* a valid manifest came back whose Pic has a timestamp, a gps position and
\* an error entry, and null for timestamp_source and camera, and whose own
\* description is null while its config is set
C19_Witness ==
  /\ RoundTripDone
  /\ PassesValidation(ser_manifest[1])
  /\ Len(ser_manifest[1].pics) = 1
  /\ ~IsNone(ser_manifest[1].pics[1].timestamp)
  /\ ~IsNone(ser_manifest[1].pics[1].gps)
  /\ ser_manifest[1].pics[1].errors # <<>>
  /\ IsNone(ser_manifest[1].pics[1].timestamp_source)
  /\ IsNone(ser_manifest[1].pics[1].camera)
  /\ IsNone(ser_manifest[1].collection_description)
  /\ ~IsNone(ser_manifest[1].config)
  /\ ser_result[1].manifest = ser_manifest[1]

\* the document was found in a file, and each of its pic entries holds
\* source_path, dest_path, hash and size_bytes and nothing else
MinimalPicsDocument ==
  /\ IsNone(ser_manifest) /\ ~IsNone(ser_json)
  /\ \A i \in 1..Len(ser_json[1].json.pics) :
       DOMAIN ser_json[1].json.pics[i] = {"source_path", "dest_path", "hash", "size_bytes"}

\* C20: deserialize accepts a manifest whose pic entries contain only
\* source_path, dest_path, hash and size_bytes: it raises nothing, and
\* yields Pics whose timestamp, timestamp_source, camera and gps are null
\* and whose errors list is empty.
C20_MinimalPicsAccepted ==
  (MinimalPicsDocument /\ ~IsNone(ser_result)) =>
    /\ ser_result[1].raised = ""
    /\ Len(ser_result[1].manifest.pics) = Len(ser_json[1].json.pics)
    /\ \A i \in 1..Len(ser_result[1].manifest.pics) :
         LET pic == ser_result[1].manifest.pics[i]
         IN /\ IsNone(pic.timestamp) /\ IsNone(pic.timestamp_source)
            /\ IsNone(pic.camera) /\ IsNone(pic.gps)
            /\ pic.errors = <<>>

(***************************************************************************)
(* Properties of _create_ordered_pics (checked under Spec).                *)
(***************************************************************************)
\* the entries of a list share a whole-second timestamp and a camera
IsBurst(entries) ==
  /\ Len(entries) >= 2
  /\ \A n \in 1..Len(entries) :
       /\ HasTimestamp(entries[n])
       /\ entries[n].timestamp = entries[1].timestamp
       /\ entries[n].make = entries[1].make
       /\ entries[n].model = entries[1].model

\* <base>-<c>.jpg for the i-th entry (i from 0) of a burst
BurstName(e, collection, i) ==
  LET plain == PlainName([camera_info |-> [make |-> e.make, model |-> e.model],
                          timestamp |-> e.timestamp, collection |-> collection,
                          file_extension |-> ".jpg"], 1)
  IN SubSeq(plain, 1, Len(plain) - 1) \o <<"-", BASE32_ALPHABET[i + 1], ".jpg">>

\* C12: when the entries handed to _create_ordered_pics share collection,
\* whole-second timestamp and camera, the i-th entry in input order
\* (i = 0..k-1) gets the dest_path <base>-<c_i>.jpg, c_i being the i-th
\* symbol of 0-9A-V: the first -0, the second -1, the third -2.
C12_BurstCountersFromZero ==
  IsBurst(ordered_pics) =>
    \A n \in 1..Len(newly_processed_pics) :
      newly_processed_pics[n].dest_path =
        BurstName(ordered_pics[n], collection_name, n - 1)

(***************************************************************************)
(* Properties of the ErrorHandler (checked under SpecError).               *)
(***************************************************************************)
\* every entry the handler holds
AllEntries == eh_info_entries \o eh_warnings \o eh_errors

\* an entry of the filesystem class has been recorded
FilesystemClassRecorded ==
  \E i \in 1..Len(AllEntries) : AllEntries[i].error_type = "filesystem_error"

\* the operations that record an entry of severity ERROR
BlockingOperations == {"handle_filesystem_error", "add_error"}

SkipCount == Cardinality({i \in 1..Len(AllEntries) : AllEntries[i].action = "skip"})

\* C22: get_processing_summary reports files_processed_successfully = 0
\* whenever has_blocking_errors is true, and otherwise the number of
\* recorded entries minus the number of entries whose action is skip.
C22_ProcessedSuccessfully ==
  ~IsNone(eh_summary) =>
    /\ eh_summary[1].has_blocking_errors = has_blocking_errors(Handler)
    /\ eh_summary[1].files_processed_successfully =
         IF has_blocking_errors(Handler) THEN 0 ELSE Len(eh_calls) - SkipCount

\* a summary of a blocked handler that holds an entry processed with its
\* fallback timestamp, and reports nothing processed
C22_Witness ==
  /\ ~IsNone(eh_summary)
  /\ has_blocking_errors(Handler)
  /\ \E i \in 1..Len(eh_warnings) : eh_warnings[i].action = "continue_with_fallback"
  /\ Len(eh_calls) - SkipCount > 0
  /\ eh_summary[1].files_processed_successfully = 0

\* a summary without blocking errors that counts the entries not skipped
C22_Counted ==
  /\ ~IsNone(eh_summary)
  /\ ~has_blocking_errors(Handler)
  /\ SkipCount > 0
  /\ eh_summary[1].files_processed_successfully = 2

(***************************************************************************)
(* Properties of the symlinks and of dry runs (checked under Spec).        *)
(***************************************************************************)
\* the Pics of the manifest the run returns
ReturnedPics == unchanged_pics \o newly_processed_pics

\* dest_dir/dest_path is a symlink that points to source_path
LinkedTo(pic) ==
  \E l \in links : l.name = pic.dest_path /\ l.target = pic.source_path

\* C23: after every non-dry run, for each Pic of the returned manifest the
\* path dest_dir/dest_path exists, is a symlink and points to the Pic's
\* source_path, on re-runs with symlinks of earlier runs present as well.
C23_SymlinksPointToSource ==
  (pc = "written" /\ ~dry_run) =>
    \A n \in 1..Len(ReturnedPics) :
      /\ DestExists(links, source, ReturnedPics[n].dest_path)
      /\ LinkedTo(ReturnedPics[n])

\* a step of a dry run: the run is in progress before or after the step
DryRunStep == dry_run \/ dry_run'

\* C24: a dry run creates no symlinks and writes its manifest only to
\* manifest.dryrun.json: manifest.json is neither created nor modified by
\* it, and the previous manifest of a dry run is read from
\* manifest.dryrun.json, not from manifest.json.
C24_DryRunFrame ==
  [][DryRunStep =>
       /\ links' = links
       /\ manifest_files'["manifest.json"] = manifest_files["manifest.json"]
       /\ (pc = "idle" /\ pc' # "idle")
            => existing_manifest' = load_manifest(manifest_files["manifest.dryrun.json"])
       /\ pc' = "written"
            => manifest_files'["manifest.dryrun.json"] =
                 Some([complete |-> TRUE,
                       doc |-> ManifestToDict(NewManifest(collection_name, unchanged_pics,
                                                          newly_processed_pics, runs))])]_vars

\* a dry run has written its manifest in a directory where a run before it
\* left symlinks and a manifest.json, and it started without a previous
\* manifest
C24_Witness ==
  /\ pc = "written" /\ dry_run
  /\ links # {}
  /\ ~IsNone(manifest_files["manifest.json"]) /\ manifest_files["manifest.json"][1].complete
  /\ IsNone(existing_manifest)
  /\ Len(newly_processed_pics) > 0
  /\ \A n \in 1..Len(newly_processed_pics) :
       ~DestEntryExists(links, newly_processed_pics[n].dest_path)

(***************************************************************************)
(* Properties of the manifest of a run (checked under Spec).               *)
(***************************************************************************)
\* the run has built its manifest
ManifestBuilt == pc \in {"writing", "written"}

SourcePaths == {FileNames[i] : i \in Present}

\* the list of Pics holds exactly one Pic for each photo file
OnePicPerFile(pics) ==
  /\ Len(pics) = Cardinality(SourcePaths)
  /\ {pics[n].source_path : n \in 1..Len(pics)} = SourcePaths

SymlinkRaises ==
  /\ pc = "linking"
  /\ linked < Len(newly_processed_pics)
  /\ DestEntryExists(links, newly_processed_pics[linked + 1].dest_path)
  /\ ~DestExists(links, source, newly_processed_pics[linked + 1].dest_path)

\* C30: a non-dry run completes and writes a manifest from every state of
\* the destination directory that earlier runs left, a name held by a
\* broken link included: symlink creation never raises.
C30_SymlinkNeverRaises == ~SymlinkRaises

(***************************************************************************)
(* Properties of the burst scan (checked under SpecOrder).                 *)
(***************************************************************************)
\* the entries i..j of the temporal sort are a run of same-second entries:
\* consecutive, of one whole second, and not part of a longer such run
IsRun(s, i, j) ==
  /\ i <= j
  /\ \A n \in i..j : SameSecond(s[i], s[n])
  /\ i > 1 => ~SameSecond(s[i - 1], s[i])
  /\ j < Len(s) => ~SameSecond(s[j + 1], s[i])

\* second + subsecond of an entry, in milliseconds
FullMs(e) == e.timestamp[1] * 1000 + (IF IsNone(e.subsecond) THEN 0 ELSE e.subsecond[1])

\* the earliest full timestamp among the members of camera k in a run
Earliest(grp, k) ==
  LET times == {FullMs(grp[n]) : n \in {m \in 1..Len(grp) : cam_key(grp[m]) = k}}
  IN CHOOSE t \in times : \A u \in times : t <= u

\* out emits the run grp as the claim has it
EmittedAsStated(grp, out) ==
  LET cams == {cam_key(grp[n]) : n \in 1..Len(grp)}
  IN IF Cardinality(cams) = 1 THEN out = grp
     ELSE /\ Len(out) = Len(grp)
          /\ \A k \in cams :
               SelectSeq(out, LAMBDA e : cam_key(e) = k)
                 = SelectSeq(grp, LAMBDA e : cam_key(e) = k)
          /\ \A a, b, c \in 1..Len(out) :
               (a < b /\ b < c /\ cam_key(out[a]) = cam_key(out[c]))
                 => cam_key(out[b]) = cam_key(out[a])
          /\ \A a, b \in 1..Len(out) :
               a < b => Earliest(grp, cam_key(out[a])) <= Earliest(grp, cam_key(out[b]))

\* C25: a run of same-second entries with more than one camera identity is
\* emitted as its per-camera sub-groups, in ascending order of the earliest
\* full timestamp of each sub-group, each sub-group in the order of the
\* temporal sort; a run with a single camera identity (a run without any
\* camera information included) is emitted as the temporal sort left it.
C25_SubGroupsByEarliest ==
  ordered =>
    /\ Len(final_order) = Len(temporally_sorted)
    /\ \A i, j \in 1..Len(temporally_sorted) :
         IsRun(temporally_sorted, i, j)
           => EmittedAsStated(SubSeq(temporally_sorted, i, j), SubSeq(final_order, i, j))

\* a run of three entries of two cameras that the scan has regrouped: the
\* temporal sort had the cameras interleaved
C25_Witness ==
  /\ ordered
  /\ \E i \in 1..Len(temporally_sorted) :
       /\ i + 2 <= Len(temporally_sorted)
       /\ IsRun(temporally_sorted, i, i + 2)
       /\ cam_key(temporally_sorted[i]) = cam_key(temporally_sorted[i + 2])
       /\ cam_key(temporally_sorted[i]) # cam_key(temporally_sorted[i + 1])
       /\ final_order[i + 1] = temporally_sorted[i + 2]

\* a run of two entries without camera information, emitted unchanged
C25_NoCameraRun ==
  /\ ordered
  /\ \E i \in 1..Len(temporally_sorted) :
       /\ i + 1 <= Len(temporally_sorted)
       /\ IsRun(temporally_sorted, i, i + 1)
       /\ \A n \in i..(i + 1) :
            IsNone(temporally_sorted[n].make) /\ IsNone(temporally_sorted[n].model)
       /\ SubSeq(final_order, i, i + 1) = SubSeq(temporally_sorted, i, i + 1)

\* C28: whatever non-negative subsecond values the entries with a timestamp
\* carry, values of 1000 or more included, the output lists these entries
\* in non-decreasing order of their whole-second timestamps, so that the
\* entries of one whole second form one contiguous run for the burst scan.
C28_WholeSecondsNonDecreasing ==
  ordered =>
    \A i, j \in 1..Len(final_order) :
      (i < j /\ HasTimestamp(final_order[i]) /\ HasTimestamp(final_order[j]))
        => final_order[i].timestamp[1] <= final_order[j].timestamp[1]

(***************************************************************************)
(* Properties of the hash check of needs_reprocessing (checked under       *)
(* SpecDetect).                                                            *)
(***************************************************************************)
\* a call on a present source, with the destination present or not given
\* and a previous_mtime within 0.001 s of the source's mtime
MtimeWithinEpsilonCall ==
  /\ ~IsNone(nr_call)
  /\ ~IsNone(nr_source)
  /\ (nr_call[1].dest_given => nr_dest_on_disk)
  /\ ~IsNone(nr_call[1].previous_mtime)
  /\ nr_call[1].previous_mtime[1] - nr_source[1].mtime \in (0 - MtimeEpsilon)..MtimeEpsilon

\* the call gave a previous_hash that is not the hash of the source
StaleHashGiven ==
  /\ ~IsNone(nr_call[1].previous_hash)
  /\ nr_call[1].previous_hash[1] # compute_file_hash(nr_source[1])

\* C26 as stated: the content hash is consulted only when previous_mtime is
\* not supplied; with source and destination present and a previous_mtime
\* within 0.001 s of the current mtime the result is false, also for a
\* previous_hash that differs from the recomputed hash.
C26_HashOnlyWithoutMtime ==
  MtimeWithinEpsilonCall => nr_call[1].result = FALSE

\* C26 amended: the content hash is consulted whenever previous_hash is
\* supplied and no earlier check has returned; with source and destination
\* present and a previous_mtime within 0.001 s of the current mtime the
\* result is true exactly for a previous_hash that differs from the
\* recomputed hash.
C26_HashAlsoWithMtime ==
  MtimeWithinEpsilonCall => nr_call[1].result = StaleHashGiven

\* a call with the destination given and present, a previous_mtime 0.001 s
\* off and the hash of other content has returned true
C26_Witness ==
  /\ MtimeWithinEpsilonCall
  /\ nr_call[1].dest_given
  /\ nr_call[1].previous_mtime[1] # nr_source[1].mtime
  /\ StaleHashGiven
  /\ nr_call[1].result = TRUE

====
